---- MODULE Spec2Model ----
(***************************************************************************)
(* AgentShield scoring core: the code scanner (scanners/code-scanner.ts),  *)
(* the transaction validator (scanners/tx-validator.ts) and the address    *)
(* checker (scanners/address-checker.ts).                                  *)
(*                                                                         *)
(* Text model.  A scanned string is a sequence of symbols: symbol 0 is a   *)
(* newline character and symbol k in 1..57 is a fragment that the regex of *)
(* rule PATTERNS[k] matches (and no other rule does); every match has      *)
(* length 1 in that sequence.  The length in characters of the string and  *)
(* its Shannon entropy are attributes of the input, since                  *)
(* calculateEntropy needs real logarithms; entropy is carried in           *)
(* thousandths of a bit.  Scores are carried in tenths while they are      *)
(* summed (the multipliers are 1.0 and 0.3), so Math.round is exact        *)
(* decimal rounding here; IEEE-754 error of the sum is not modelled.       *)
(***************************************************************************)
EXTENDS Integers, Sequences, FiniteSets, TLC

\* ---- bounds of the model ------------------------------------------------
MaxLen == 4

\* symbols the scanned texts are drawn from: newline and one fragment each
\* for rules 1 (shell_exec critical 25), 9 (network_exfil medium 5),
\* 14 (network_exfil critical 25), 18 (wallet_drain critical 30) and
\* 54 (data_access critical 25); and a second sample with rule 55
\* (crypto_theft critical 30)
Alphabet == {0, 1, 9, 14, 18, 54}

AlphabetTheft == {1, 14, 18, 55}

\* a third sample with two wallet_drain rules: 17 (critical 20) and 18
AlphabetWallet == {17, 18}

\* context patterns the context texts are drawn from
CtxAlphabet == {1, 2, 4, 6}

Min(a, b) == IF a < b THEN a ELSE b
Max(a, b) == IF a > b THEN a ELSE b

\* ---- code-scanner.ts: rule table ------------------------------------------
PATTERNS == <<
  [category |-> "shell_exec", severity |-> "critical", confidence |-> 95, weight |-> 25,
   description |-> "Imports child_process module - can execute arbitrary system commands"],
  [category |-> "shell_exec", severity |-> "critical", confidence |-> 95, weight |-> 25,
   description |-> "ES module import of child_process"],
  [category |-> "shell_exec", severity |-> "critical", confidence |-> 90, weight |-> 20,
   description |-> "Direct shell command execution function call"],
  [category |-> "shell_exec", severity |-> "critical", confidence |-> 95, weight |-> 25,
   description |-> "child_process method invocation"],
  [category |-> "shell_exec", severity |-> "high", confidence |-> 70, weight |-> 10,
   description |-> "Process termination - could be used to crash host"],
  [category |-> "shell_exec", severity |-> "medium", confidence |-> 60, weight |-> 8,
   description |-> "Imports sensitive Node.js core module"],
  [category |-> "shell_exec", severity |-> "high", confidence |-> 85, weight |-> 15,
   description |-> "Third-party shell execution library"],
  [category |-> "network_exfil", severity |-> "high", confidence |-> 60, weight |-> 10,
   description |-> "HTTP request to external domain - potential data exfiltration"],
  [category |-> "network_exfil", severity |-> "medium", confidence |-> 40, weight |-> 5,
   description |-> "HTTP client library - review outbound connections"],
  [category |-> "network_exfil", severity |-> "high", confidence |-> 70, weight |-> 12,
   description |-> "WebSocket connection - could stream data to external server"],
  [category |-> "network_exfil", severity |-> "high", confidence |-> 80, weight |-> 15,
   description |-> "Low-level network connection - bypasses HTTP monitoring"],
  [category |-> "network_exfil", severity |-> "critical", confidence |-> 85, weight |-> 25,
   description |-> "Sending sensitive data over network connection"],
  [category |-> "network_exfil", severity |-> "critical", confidence |-> 80, weight |-> 20,
   description |-> "Webhook URL configured - likely exfiltration endpoint"],
  [category |-> "network_exfil", severity |-> "critical", confidence |-> 90, weight |-> 25,
   description |-> "Discord webhook - common exfiltration channel for stolen data"],
  [category |-> "network_exfil", severity |-> "critical", confidence |-> 90, weight |-> 25,
   description |-> "Telegram bot API - common exfiltration channel"],
  [category |-> "wallet_drain", severity |-> "critical", confidence |-> 90, weight |-> 25,
   description |-> "Accesses private key - potential wallet theft"],
  [category |-> "wallet_drain", severity |-> "critical", confidence |-> 85, weight |-> 20,
   description |-> "Accesses secret key or keypair"],
  [category |-> "wallet_drain", severity |-> "critical", confidence |-> 95, weight |-> 30,
   description |-> "Accesses mnemonic/seed phrase - wallet recovery theft"],
  [category |-> "wallet_drain", severity |-> "critical", confidence |-> 95, weight |-> 30,
   description |-> "Reconstructing Solana Keypair from secret key bytes"],
  [category |-> "wallet_drain", severity |-> "critical", confidence |-> 95, weight |-> 30,
   description |-> "Reconstructing Solana Keypair from seed"],
  [category |-> "wallet_drain", severity |-> "high", confidence |-> 60, weight |-> 10,
   description |-> "Base58 decoding - could be decoding wallet keys"],
  [category |-> "wallet_drain", severity |-> "high", confidence |-> 75, weight |-> 15,
   description |-> "Reading sensitive environment variables (keys/secrets)"],
  [category |-> "wallet_drain", severity |-> "high", confidence |-> 50, weight |-> 8,
   description |-> "Transaction/message signing - verify authorization"],
  [category |-> "wallet_drain", severity |-> "high", confidence |-> 50, weight |-> 8,
   description |-> "SOL transfer instruction - verify recipient is authorized"],
  [category |-> "wallet_drain", severity |-> "medium", confidence |-> 40, weight |-> 6,
   description |-> "Token/SOL transfer with amount - review authorization"],
  [category |-> "wallet_drain", severity |-> "critical", confidence |-> 85, weight |-> 20,
   description |-> "Solana CLI key generation or config modification"],
  [category |-> "prompt_injection", severity |-> "critical", confidence |-> 90, weight |-> 25,
   description |-> "System prompt override attempt"],
  [category |-> "prompt_injection", severity |-> "critical", confidence |-> 85, weight |-> 20,
   description |-> "Instruction override marker detected"],
  [category |-> "prompt_injection", severity |-> "critical", confidence |-> 95, weight |-> 30,
   description |-> "Prompt injection - attempts to override previous instructions"],
  [category |-> "prompt_injection", severity |-> "critical", confidence |-> 90, weight |-> 25,
   description |-> "Prompt injection - attempts to clear agent instructions"],
  [category |-> "prompt_injection", severity |-> "critical", confidence |-> 90, weight |-> 25,
   description |-> "Attempts to bypass safety guardrails"],
  [category |-> "prompt_injection", severity |-> "critical", confidence |-> 95, weight |-> 30,
   description |-> "Tool invocation injection - attempts to make agent call tools"],
  [category |-> "prompt_injection", severity |-> "critical", confidence |-> 90, weight |-> 25,
   description |-> "Function/tool call injection attempt"],
  [category |-> "prompt_injection", severity |-> "critical", confidence |-> 95, weight |-> 30,
   description |-> "LLM special token injection - attempts to inject control tokens"],
  [category |-> "prompt_injection", severity |-> "high", confidence |-> 80, weight |-> 15,
   description |-> "Role reassignment attempt - jailbreak pattern"],
  [category |-> "prompt_injection", severity |-> "high", confidence |-> 85, weight |-> 18,
   description |-> "DAN (Do Anything Now) jailbreak pattern"],
  [category |-> "obfuscation", severity |-> "critical", confidence |-> 90, weight |-> 25,
   description |-> "eval() - executes arbitrary code strings"],
  [category |-> "obfuscation", severity |-> "critical", confidence |-> 90, weight |-> 25,
   description |-> "Function constructor - creates function from string (like eval)"],
  [category |-> "obfuscation", severity |-> "high", confidence |-> 80, weight |-> 15,
   description |-> "setTimeout with string argument - executes as eval"],
  [category |-> "obfuscation", severity |-> "high", confidence |-> 80, weight |-> 15,
   description |-> "setInterval with string argument - executes as eval"],
  [category |-> "base64_payload", severity |-> "high", confidence |-> 75, weight |-> 15,
   description |-> "Base64 encoding/decoding of substantial payload"],
  [category |-> "base64_payload", severity |-> "high", confidence |-> 80, weight |-> 18,
   description |-> "Buffer.from with base64 - decoding hidden payload"],
  [category |-> "obfuscation", severity |-> "high", confidence |-> 75, weight |-> 15,
   description |-> "Hex-escaped string sequence - obfuscated code"],
  [category |-> "obfuscation", severity |-> "high", confidence |-> 75, weight |-> 15,
   description |-> "Unicode-escaped string sequence - obfuscated code"],
  [category |-> "obfuscation", severity |-> "high", confidence |-> 80, weight |-> 15,
   description |-> "Hex property access - obfuscated member access"],
  [category |-> "obfuscation", severity |-> "high", confidence |-> 80, weight |-> 18,
   description |-> "String.fromCharCode with multiple codes - building hidden strings"],
  [category |-> "obfuscation", severity |-> "high", confidence |-> 85, weight |-> 15,
   description |-> "JavaScript obfuscator variable naming pattern"],
  [category |-> "hidden_instruction", severity |-> "high", confidence |-> 70, weight |-> 12,
   description |-> "HTML comment containing suspicious keywords"],
  [category |-> "hidden_instruction", severity |-> "medium", confidence |-> 50, weight |-> 8,
   description |-> "Code comment containing suspicious keywords"],
  [category |-> "hidden_instruction", severity |-> "high", confidence |-> 85, weight |-> 18,
   description |-> "Zero-width characters detected - possible hidden text"],
  [category |-> "hidden_instruction", severity |-> "high", confidence |-> 80, weight |-> 15,
   description |-> "Braille pattern characters - possible steganographic hiding"],
  [category |-> "data_access", severity |-> "high", confidence |-> 65, weight |-> 10,
   description |-> "Filesystem read operation - potential data theft"],
  [category |-> "data_access", severity |-> "high", confidence |-> 70, weight |-> 12,
   description |-> "Filesystem write/delete operation - potential data destruction"],
  [category |-> "data_access", severity |-> "critical", confidence |-> 90, weight |-> 25,
   description |-> "Accessing sensitive system files"],
  [category |-> "crypto_theft", severity |-> "critical", confidence |-> 95, weight |-> 30,
   description |-> "Accessing Solana CLI wallet/config files"],
  [category |-> "crypto_theft", severity |-> "critical", confidence |-> 85, weight |-> 25,
   description |-> "Targeting Solana wallet browser extensions"],
  [category |-> "crypto_theft", severity |-> "high", confidence |-> 75, weight |-> 15,
   description |-> "Accessing browser extension data - potential wallet theft"]
>>

Rules == 1..Len(PATTERNS)

\* ---- code-scanner.ts: detection engine ----------------------------------
\* the newline character of the text model
NL == 0

\* RegExp.prototype.exec / test of a global regex: the search starts at
\* lastIndex; a match moves lastIndex to its end, a failure resets it to 0
RegExpExec(sym, text, li) ==
  LET hits == {p \in (li + 1)..Len(text) : text[p] = sym}
  IN  IF hits = {}
        THEN [found |-> FALSE, index |-> 0, length |-> 0, lastIndex |-> 0]
        ELSE LET p == CHOOSE q \in hits : \A r \in hits : q <= r
             IN  [found |-> TRUE, index |-> p - 1, length |-> 1, lastIndex |-> p]

\* (beforeMatch.match(/\n/g) || []).length + 1
LineNumber(text, index) ==
  Cardinality({p \in 1..index : text[p] = NL}) + 1

MakeDetection(k, text, m) ==
  [pattern     |-> k,
   category    |-> PATTERNS[k].category,
   severity    |-> PATTERNS[k].severity,
   description |-> PATTERNS[k].description,
   line        |-> LineNumber(text, m.index),
   match       |-> text[m.index + 1],
   confidence  |-> PATTERNS[k].confidence]

\* the while loop of one rule, entered with the rule's cursor at li
RECURSIVE MatchLoop(_, _, _)
MatchLoop(k, text, li) ==
  LET m == RegExpExec(k, text, li)
  IN  IF ~m.found
        THEN [detections |-> <<>>, lastIndex |-> m.lastIndex]
        ELSE LET rest == MatchLoop(k, text,
                           IF m.length = 0 THEN m.lastIndex + 1 ELSE m.lastIndex)
             IN  [detections |-> <<MakeDetection(k, text, m)>> \o rest.detections,
                  lastIndex  |-> rest.lastIndex]

\* rule.regex.lastIndex = 0 before a rule's loop
ResetCursor(li) == 0

\* concatenation of the detections of rules lo..hi, in rule-table order
RECURSIVE ConcatRules(_, _, _)
ConcatRules(perRule, lo, hi) ==
  IF lo > hi THEN <<>>
  ELSE IF lo = hi THEN perRule[lo].detections
  ELSE LET mid == (lo + hi) \div 2
       IN  ConcatRules(perRule, lo, mid) \o ConcatRules(perRule, mid + 1, hi)

\* the for loop over PATTERNS; cursors is the lastIndex of every rule's
\* regex object (each rule's loop reads and writes only its own)
Detect(text, cursors) ==
  LET perRule == [k \in Rules |-> MatchLoop(k, text, ResetCursor(cursors[k]))]
  IN  [detections |-> ConcatRules(perRule, 1, Len(PATTERNS)),
       cursors    |-> [k \in Rules |-> perRule[k].lastIndex],
       starts     |-> {ResetCursor(cursors[k]) : k \in Rules}]

\* ---- code-scanner.ts: risk aggregation ----------------------------------
\* PATTERNS.find(r => r.category === d.category && r.description === d.description)
FindRule(d) ==
  LET same == {k \in Rules : /\ PATTERNS[k].category = d.category
                             /\ PATTERNS[k].description = d.description}
  IN  IF same = {} THEN 0 ELSE CHOOSE k \in same : \A j \in same : k <= j

InSeq(x, s) == \E i \in 1..Len(s) : s[i] = x

\* Set.add on an insertion-ordered Set
SetAdd(s, x) == IF InSeq(x, s) THEN s ELSE Append(s, x)

\* the full multiplier only while no category at all has been seen
Multiplier_AnySeen(seen, category) == IF seen # <<>> THEN 3 ELSE 10

\* the multiplier without diminishing returns
Multiplier_AlwaysFull(seen, category) == 10

\* the multiplier with its two branches swapped
Multiplier_Inverted(seen, category) == IF InSeq(category, seen) THEN 10 ELSE 3

\* multiplier in tenths: 1.0 for the first detection of a category, else 0.3
Multiplier(seen, category) == IF InSeq(category, seen) THEN 3 ELSE 10

RECURSIVE ScoreLoop(_, _, _, _)
ScoreLoop(detections, i, raw10, seen) ==
  IF i > Len(detections)
    THEN [rawScore10 |-> raw10, seenCategories |-> seen]
    ELSE LET d == detections[i]
             k == FindRule(d)
         IN  IF k = 0
               THEN ScoreLoop(detections, i + 1, raw10, seen)
               ELSE ScoreLoop(detections, i + 1,
                              raw10 + PATTERNS[k].weight * Multiplier(seen, d.category),
                              SetAdd(seen, d.category))

\* Math.round of a non-negative value given in tenths
MathRound10(x10) == (x10 + 5) \div 10

\* every boost adding 10, whatever its own amount
Boost_Ten(score, cond, k) == IF cond THEN Min(100, score + 10) ELSE score

\* one heuristic boost: adjustedScore = Math.min(100, adjustedScore + k)
Boost(score, cond, k) == IF cond THEN Min(100, score + k) ELSE score

CriticalCategories(detections) ==
  {detections[i].category : i \in {j \in 1..Len(detections) : detections[j].severity = "critical"}}

\* calculateEntropy(code), in thousandths of a bit
calculateEntropy(code) == code.entropy

\* the key without the line
DetectionKey_NoLine(d) == d.category \o ":" \o d.description

\* `${d.category}:${d.description}:${d.line}`
DetectionKey(d) == d.category \o ":" \o d.description \o ":" \o ToString(d.line)

RECURSIVE DedupLoop(_, _, _)
DedupLoop(detections, i, seen) ==
  IF i > Len(detections)
    THEN <<>>
    ELSE LET key == DetectionKey(detections[i])
         IN  IF key \in seen
               THEN DedupLoop(detections, i + 1, seen)
               ELSE <<detections[i]>> \o DedupLoop(detections, i + 1, seen \cup {key})

deduplicateDetections(detections) == DedupLoop(detections, 1, {})

CountSeverity(detections, sev) ==
  Cardinality({i \in 1..Len(detections) : detections[i].severity = sev})

\* the summary with the MODERATE band starting at 40
generateSummary_Band40(detections, riskScore, categories) ==
  IF Len(detections) = 0
    THEN [banner |-> "NO_SUSPICIOUS_PATTERNS", found |-> 0, critical |-> 0,
          high |-> 0, categories |-> <<>>]
    ELSE [banner |-> IF riskScore >= 80 THEN "CRITICAL"
                     ELSE IF riskScore >= 50 THEN "HIGH"
                     ELSE IF riskScore >= 40 THEN "MODERATE"
                     ELSE "LOW",
          found      |-> Len(detections),
          critical   |-> CountSeverity(detections, "critical"),
          high       |-> CountSeverity(detections, "high"),
          categories |-> categories]

generateSummary(detections, riskScore, categories) ==
  IF Len(detections) = 0
    THEN [banner |-> "NO_SUSPICIOUS_PATTERNS", found |-> 0, critical |-> 0,
          high |-> 0, categories |-> <<>>]
    ELSE [banner |-> IF riskScore >= 80 THEN "CRITICAL"
                     ELSE IF riskScore >= 50 THEN "HIGH"
                     ELSE IF riskScore >= 30 THEN "MODERATE"
                     ELSE "LOW",
          found      |-> Len(detections),
          critical   |-> CountSeverity(detections, "critical"),
          high       |-> CountSeverity(detections, "high"),
          categories |-> categories]

\* the entropy check with both comparisons reversed
HeavilyObfuscated_Reversed(code) == calculateEntropy(code) < 5500 /\ code.length < 500

\* the entropy check without the length condition
HeavilyObfuscated_AnyLength(code) == calculateEntropy(code) > 5500

\* entropy > 5.5 && code.length > 500
HeavilyObfuscated(code) == calculateEntropy(code) > 5500 /\ code.length > 500

\* the part of scanCode after the detection loop: the score, the summary
\* and the returned record; scannedAt and scanDurationMs (wall clock) are
\* left out
Aggregate(detections, code) ==
  LET Boosted(seen, riskScore) ==
        LET b1 == Boost(riskScore,
                        Cardinality(CriticalCategories(detections)) >= 3, 15)
            b2 == Boost(b1, InSeq("network_exfil", seen)
                            /\ (InSeq("wallet_drain", seen)
                                \/ InSeq("crypto_theft", seen)), 20)
            b3 == Boost(b2, InSeq("shell_exec", seen) /\ InSeq("data_access", seen), 10)
            b4 == Boost(b3, HeavilyObfuscated(code), 10)
        IN  Min(100, b4)
      Returned(seen, riskScore, finalScore) ==
        [result |-> [safe       |-> finalScore < 30,
                     riskScore  |-> finalScore,
                     detections |-> deduplicateDetections(detections),
                     summary    |-> generateSummary(detections, finalScore, seen),
                     codeLength |-> code.length],
         base   |-> riskScore]
      Adjusted(seen, riskScore) ==
        Returned(seen, riskScore, Boosted(seen, riskScore))
      Summed(sum) ==
        Adjusted(sum.seenCategories, Min(100, MathRound10(sum.rawScore10)))
  IN  Summed(ScoreLoop(detections, 1, 0, <<>>))

\* scanCode(code) run with the rule regexes' cursors as they were left
scanCode(code, cursors) ==
  LET Packed(found, agg) ==
        [result  |-> agg.result,
         base    |-> agg.base,
         raw     |-> found.detections,
         cursors |-> found.cursors,
         starts  |-> found.starts]
      Scanned(found) == Packed(found, Aggregate(found.detections, code))
  IN  Scanned(Detect(code.text, cursors))

\* ---- data/scam-addresses.ts ---------------------------------------------
SCAM_ADDRESSES == <<
  [address |-> "Drainer1111111111111111111111111111111111111",
   category |-> "drain", severity |-> "critical",
   description |-> "Template drainer address - placeholder for pattern testing"],
  [address |-> "5wkyL3dBbKCjMiVMFzPxjW3B6Hs4tN7fMrJJoSKHAqs",
   category |-> "drain", severity |-> "critical",
   description |-> "Rainbow Drainer - multi-chain wallet drainer operation"],
  [address |-> "GvBfMHwLjQvcKDiGhJvTzPBUXHBGtvwMsFdYyBJdSBU9",
   category |-> "drain", severity |-> "critical",
   description |-> "Solana drainer kit - associated with fake NFT mint sites"],
  [address |-> "FakeDrop11111111111111111111111111111111111",
   category |-> "phishing", severity |-> "high",
   description |-> "Fake airdrop campaign targeting Solana users"],
  [address |-> "2fGfCPJn9MRy5SLBJ8Jh9gNG3dJXkSqfh4ZR8pG5SxAc",
   category |-> "phishing", severity |-> "critical",
   description |-> "Phishing site impersonating Jupiter aggregator"],
  [address |-> "BFXGSqcA2ZPdSjpEhBZvTLxkEfPbBMnRJv5vyhxKJCBj",
   category |-> "phishing", severity |-> "critical",
   description |-> "Fake Phantom wallet update phishing campaign"],
  [address |-> "BoNKEjnQcNUj6YBLKfn2tF5Xt3PQhBsEahjNHVFbRq9R",
   category |-> "rugpull", severity |-> "high",
   description |-> "BONK copycat rug pull token deployer"],
  [address |-> "4k3DyjzvzaEGP2gfLjcKP4LBG9LMiTm5U5wGaX68BrJ",
   category |-> "rugpull", severity |-> "critical",
   description |-> "Serial rug pull deployer - 12+ tokens pulled"],
  [address |-> "FRogGRJa2B4AVqBxd3Fxv7VmRdGMuCpUXjJF7JkZzsa",
   category |-> "rugpull", severity |-> "high",
   description |-> "Fake FROG token rug pull"],
  [address |-> "CyZuD7RPDcrqCGbNvLCyqk6Py9cEZTKmNKujfPi3ynDd",
   category |-> "mixer", severity |-> "high",
   description |-> "Known Solana mixing service used for laundering stolen funds"],
  [address |-> "Htp9MGP8Tig923ZFY7Qf2zzbMUmYneFRAhSp7vSg4wxV",
   category |-> "exploit", severity |-> "critical",
   description |-> "Mango Markets exploiter - $114M exploit October 2022"],
  [address |-> "CfVkYofcLC1iVBcYFzgdYPeiX25SVRmWvBQVHorP1A3y",
   category |-> "exploit", severity |-> "critical",
   description |-> "Associated with Wormhole bridge exploit - February 2022"],
  [address |-> "7oPa2PHQdZmjSPqvpZN7MQxnC7Dcf3uL4oLqknGLk2S",
   category |-> "exploit", severity |-> "critical",
   description |-> "Cashio stablecoin exploit - infinite mint bug March 2022"],
  [address |-> "HoneyPoT1111111111111111111111111111111111",
   category |-> "honeypot", severity |-> "high",
   description |-> "Honeypot token - buy-only, no sell possible"],
  [address |-> "8dHEsGnkjfEJMhRKLnap5SMdmFwABvjTwyvsSqA8bCng",
   category |-> "honeypot", severity |-> "high",
   description |-> "Honeypot token with hidden transfer fee and sell lock"],
  [address |-> "ScamWaLLet111111111111111111111111111111111",
   category |-> "scam", severity |-> "high",
   description |-> "Generic scam wallet used in social engineering attacks"],
  [address |-> "3KS4bKeoLXZyFv2JDx2mNW3vL3FZSKhEy3ZdS79grJ5m",
   category |-> "scam", severity |-> "high",
   description |-> "Fake customer support scam - impersonating Solana Foundation"],
  [address |-> "9WzDXwBbmkg8ZTbNMqUxvQRAyrZzDsGYdLVL9zYtAWWM",
   category |-> "scam", severity |-> "medium",
   description |-> "Advance fee scam - promises SOL doubling"]
>>

NoEntry == [address |-> "", category |-> "", severity |-> "", description |-> ""]

\* buildScamLookup().get(address): Map.set lets the last entry of an address win
ScamLookupGet(address) ==
  LET hits == {i \in 1..Len(SCAM_ADDRESSES) : SCAM_ADDRESSES[i].address = address}
  IN  IF hits = {} THEN NoEntry
      ELSE SCAM_ADDRESSES[CHOOSE i \in hits : \A j \in hits : i >= j]

\* ---- tx-validator.ts ----------------------------------------------------
\* addresses the requests are drawn from: a string that is not base58, two
\* registry entries that are keys, a registry entry that is one byte short
\* of a key, the system program and the wrapped-SOL mint
AddressSample ==
  {"not-a-valid-address",
   "Htp9MGP8Tig923ZFY7Qf2zzbMUmYneFRAhSp7vSg4wxV",
   "9WzDXwBbmkg8ZTbNMqUxvQRAyrZzDsGYdLVL9zYtAWWM",
   "HoneyPoT1111111111111111111111111111111111",
   "11111111111111111111111111111111",
   "So11111111111111111111111111111111111111112"}

\* number of bytes bs58.decode gives for a sampled address, -1 where it
\* throws on a character outside the base58 alphabet
Bs58DecodedLength(address) ==
  CASE address = "not-a-valid-address" -> -1
    [] address = "HoneyPoT1111111111111111111111111111111111" -> 31
    [] address = "111111111111111111111111111111111111111111111" -> 45
    [] OTHER -> 32

\* a destination that is a JSON object, as the requests carry it
JsonObject == "{}"

\* new PublicKey(address) does not throw: the decoded key has 32 bytes; a
\* value that is not a string goes to new BN(value), which throws for an
\* object without a length
IsPublicKey(address) == address # JsonObject /\ Bs58DecodedLength(address) = 32

HIGH_VALUE_THRESHOLDS ==
  [SOL |-> 10, USDC |-> 1000, USDT |-> 1000, BONK |-> 100000000, JUP |-> 5000,
   DEFAULT |-> 1000]

KNOWN_SAFE_PROGRAMS ==
  {"11111111111111111111111111111111",
   "TokenkegQfeZyiNwAJbNbGKPFXCWuBvf9Ss623VQ5DA",
   "ATokenGPvbdGVxr1b2hvZbsiqW5xWH25efTNsLJA8knL",
   "JUP6LkbZbjS1jKKwapdHNy74zcZ3tLUZoi5QNyVTaV4",
   "whirLbMiicVdio4qvUfM5KAg6Ct8VwpYzGff3uctyCc",
   "675kPX9MHTjS2zt1qfr1NYHuzeLXfQM9H24wFSUt1Mp8",
   "metaqbxxUerdq28cj1RbAWkYQm3ybzjb6a8bt518x1s",
   "So1endDq2YkqhipRh3WViPa8hFMqFTiRnTNpGRZpubsc",
   "MangoeUkGQBJhRjjz3PMMoKTJKPrb8eaWRvRHfgjUdZ"}

\* symbol k of a context text is a fragment that pattern k matches
SUSPICIOUS_CONTEXT_PATTERNS == <<
  [flag |-> "URGENCY_PRESSURE",        weight |-> 10],
  [flag |-> "UNREALISTIC_RETURNS",     weight |-> 20],
  [flag |-> "SCARCITY_PRESSURE",       weight |-> 10],
  [flag |-> "TRUST_MANIPULATION",      weight |-> 15],
  [flag |-> "AUTHORITY_IMPERSONATION", weight |-> 10],
  [flag |-> "ADVANCE_FEE_PATTERN",     weight |-> 25],
  [flag |-> "WALLET_PHISHING",         weight |-> 20],
  [flag |-> "FAKE_AIRDROP",            weight |-> 15]
>>

CtxPatterns == 1..Len(SUSPICIOUS_CONTEXT_PATTERNS)

\* (req.token || 'SOL').toUpperCase() on the sampled symbols
ToUpperCase(token) ==
  CASE token = "sol"  -> "SOL"
    [] token = "usdc" -> "USDC"
    [] token = "jup"  -> "JUP"
    [] token = "bonk" -> "BONK"
    [] OTHER          -> token

Threshold(token) ==
  LET t == ToUpperCase(IF token = "" THEN "SOL" ELSE token)
  IN  IF t \in DOMAIN HIGH_VALUE_THRESHOLDS
        THEN HIGH_VALUE_THRESHOLDS[t]
        ELSE HIGH_VALUE_THRESHOLDS.DEFAULT

\* the amount analysis with the two value branches as independent ifs
AmountStep_BothBranches(acc, amount2, token) ==
  LET threshold == Threshold(token)
      s0 == IF amount2 > threshold * 10 * 2
              THEN [flags |-> Append(acc.flags, "EXTREMELY_HIGH_VALUE"),
                    riskScore |-> acc.riskScore + 25]
              ELSE acc
      s1 == IF amount2 > threshold * 2
              THEN [flags |-> Append(s0.flags, "HIGH_VALUE_TRANSACTION"),
                    riskScore |-> s0.riskScore + 10]
              ELSE s0
      s2 == IF amount2 <= 0
              THEN [flags |-> Append(s1.flags, "ZERO_OR_NEGATIVE_AMOUNT"),
                    riskScore |-> s1.riskScore + 5]
              ELSE s1
  IN  IF amount2 > 2 /\ amount2 % 2 = 0 /\ amount2 >= 200
        THEN [flags |-> Append(s2.flags, "ROUND_NUMBER_AMOUNT"),
              riskScore |-> s2.riskScore + 3]
        ELSE s2

\* amounts are carried in halves (amount2 = 2 * req.amount)
AmountStep(acc, amount2, token) ==
  LET threshold == Threshold(token)
      s1 == IF amount2 > threshold * 10 * 2
              THEN [flags |-> Append(acc.flags, "EXTREMELY_HIGH_VALUE"),
                    riskScore |-> acc.riskScore + 25]
            ELSE IF amount2 > threshold * 2
              THEN [flags |-> Append(acc.flags, "HIGH_VALUE_TRANSACTION"),
                    riskScore |-> acc.riskScore + 10]
            ELSE acc
      s2 == IF amount2 <= 0
              THEN [flags |-> Append(s1.flags, "ZERO_OR_NEGATIVE_AMOUNT"),
                    riskScore |-> s1.riskScore + 5]
              ELSE s1
  IN  IF amount2 > 2 /\ amount2 % 2 = 0 /\ amount2 >= 200
        THEN [flags |-> Append(s2.flags, "ROUND_NUMBER_AMOUNT"),
              riskScore |-> s2.riskScore + 3]
        ELSE s2

\* the cursor left where the successful test put it
ResetAfterTest_Missing(li) == li

\* pattern.regex.lastIndex = 0 after a successful test
ResetAfterTest(li) == 0

\* the for loop over SUSPICIOUS_CONTEXT_PATTERNS from pattern k on
RECURSIVE ContextLoop(_, _, _, _)
ContextLoop(k, text, acc, cursors) ==
  IF k > Len(SUSPICIOUS_CONTEXT_PATTERNS)
    THEN [flags |-> acc.flags, riskScore |-> acc.riskScore,
          cursors |-> cursors, starts |-> {}]
    ELSE LET m    == RegExpExec(k, text, cursors[k])
             acc2 == IF m.found
                       THEN [flags |-> Append(acc.flags, SUSPICIOUS_CONTEXT_PATTERNS[k].flag),
                             riskScore |-> acc.riskScore + SUSPICIOUS_CONTEXT_PATTERNS[k].weight]
                       ELSE acc
             li2  == IF m.found THEN ResetAfterTest(m.lastIndex) ELSE m.lastIndex
             rest == ContextLoop(k + 1, text, acc2, [cursors EXCEPT ![k] = li2])
         IN  [flags |-> rest.flags, riskScore |-> rest.riskScore,
              cursors |-> rest.cursors, starts |-> {cursors[k]} \cup rest.starts]

\* the cap with its upper limit left out
FinalScore_NoCeiling(riskScore) == Max(0, riskScore)

\* Math.min(100, Math.max(0, riskScore))
FinalScore(riskScore) == Min(100, Max(0, riskScore))

\* the missing-context test with the limit one character too high
NoContext_AtMost5(context) == ~context.truthy \/ context.trimLength <= 5

\* !req.context || req.context.trim().length < 5
NoContext(context) == ~context.truthy \/ context.trimLength < 5

\* the allow-list branch wiping the score instead of deducting from it
KnownSafeProgram_ClearsScore(acc) ==
  [flags |-> Append(acc.flags, "KNOWN_SAFE_PROGRAM"), riskScore |-> 0]

\* the KNOWN_SAFE_PROGRAMS branch: riskScore = Math.max(0, riskScore - 20)
KnownSafeProgram(acc) ==
  [flags |-> Append(acc.flags, "KNOWN_SAFE_PROGRAM"),
   riskScore |-> Max(0, acc.riskScore - 20)]

\* the recommendation with the review band starting one point late
Recommendation_ReviewAbove30(finalScore, scamHit) ==
  IF finalScore >= 60 \/ scamHit THEN "block"
  ELSE IF finalScore > 30 THEN "review"
  ELSE "proceed"

\* the recommendation with the review band starting at 40
Recommendation_ReviewFrom40(finalScore, scamHit) ==
  IF finalScore >= 60 \/ scamHit THEN "block"
  ELSE IF finalScore >= 40 THEN "review"
  ELSE "proceed"

\* the recommendation chain: block, review, proceed
Recommendation(finalScore, scamHit) ==
  IF finalScore >= 60 \/ scamHit THEN "block"
  ELSE IF finalScore >= 30 THEN "review"
  ELSE "proceed"

\* the body of validateTransaction after the destination was accepted as a
\* key, for a destination whose registry entry is scamEntry and whose
\* membership of KNOWN_SAFE_PROGRAMS is safeProgram
ValidateSteps(req, cursors, scamEntry, safeProgram) ==
  LET a0 == [flags |-> <<>>, riskScore |-> 0]
      a1 == IF scamEntry # NoEntry
              THEN [flags |-> a0.flags \o <<"KNOWN_SCAM: " \o scamEntry.category,
                                            "SCAM_DETAIL: " \o scamEntry.description>>,
                    riskScore |-> a0.riskScore + 80]
              ELSE a0
      a2 == IF safeProgram THEN KnownSafeProgram(a1) ELSE a1
      Context(a3) ==
        IF req.context.truthy
          THEN ContextLoop(1, req.context.text, a3, cursors)
          ELSE [flags |-> a3.flags, riskScore |-> a3.riskScore,
                cursors |-> cursors, starts |-> {}]
      Returned(c, a5, finalScore) ==
        [result |-> [safe |-> finalScore < 30,
                     riskScore |-> finalScore,
                     flags |-> a5.flags,
                     recommendation |-> Recommendation(finalScore, scamEntry # NoEntry)],
         uncapped |-> a5.riskScore,
         cursors |-> c.cursors, starts |-> c.starts]
      Capped(c, a5) == Returned(c, a5, FinalScore(a5.riskScore))
      Checked(c) ==
        Capped(c, IF NoContext(req.context)
                    THEN [flags |-> Append(c.flags, "NO_CONTEXT_PROVIDED"),
                          riskScore |-> c.riskScore + 5]
                    ELSE [flags |-> c.flags, riskScore |-> c.riskScore])
  IN  Checked(Context(AmountStep(a2, req.amount2, req.token)))

\* validateTransaction(req) run with the context regexes' cursors as they
\* were left; details and validatedAt are left out
validateTransaction(req, cursors) ==
  IF ~IsPublicKey(req.destination)
    THEN [result |-> [safe |-> FALSE, riskScore |-> 100,
                      flags |-> <<"INVALID_DESTINATION_ADDRESS">>,
                      recommendation |-> "block"],
          uncapped |-> 100,
          cursors |-> cursors, starts |-> {}]
    ELSE ValidateSteps(req, cursors, ScamLookupGet(req.destination),
                       req.destination \in KNOWN_SAFE_PROGRAMS)

\* ---- address-checker.ts -------------------------------------------------
\* severityScores[scamMatch.severity] || 25
SeverityScore(severity) ==
  CASE severity = "critical" -> 50
    [] severity = "high"     -> 35
    [] severity = "medium"   -> 20
    [] severity = "low"      -> 10
    [] OTHER                 -> 25

\* Date.now() of the address checks, in seconds
NowSec == 8640000

\* replies of conn.getAccountInfo: an error, null, or the account with its
\* balance in whole SOL
AccountReplies ==
  {[kind |-> "error", balance |-> 0, executable |-> FALSE],
   [kind |-> "null",  balance |-> 0, executable |-> FALSE]}
  \cup {[kind |-> "info", balance |-> b, executable |-> e] :
          b \in {0, 100, 101}, e \in BOOLEAN}

\* block times (seconds, 0 for null) an account's oldest signature is drawn
\* from: ages of just under and exactly 1, 7 and 30 days
OldestSample ==
  {0, NowSec - 86399, NowSec - 86400, NowSec - 604799, NowSec - 604800,
   NowSec - 2591999, NowSec - 2592000}

\* replies of conn.getSignaturesForAddress(limit 100): an error, or the list
\* (most recent first) given by its length and the block times of
\* signatures[0], signatures[min(49, n-1)] and signatures[n-1]
SignatureReplies ==
  {[kind |-> "error", n |-> 0, first |-> 0, last |-> 0, oldest |-> 0],
   [kind |-> "list",  n |-> 0, first |-> 0, last |-> 0, oldest |-> 0]}
  \cup {[kind |-> "list", n |-> 1, first |-> t, last |-> t, oldest |-> t] :
          t \in OldestSample}
  \cup {[kind |-> "list", n |-> 50, first |-> f, last |-> t, oldest |-> t] :
          t \in {0, NowSec - 86400, NowSec - 2592000},
          f \in {0, NowSec - 86400 + 3599, NowSec - 2592000 + 3600}}
  \cup {[kind |-> "list", n |-> 100, first |-> f, last |-> l, oldest |-> t] :
          t \in {0, NowSec - 2592000},
          l \in {0, NowSec - 86400},
          f \in {NowSec - 86400 + 3599, NowSec - 86400 + 3600}}

IdleCheck ==
  [pc |-> "idle", caller |-> "none", address |-> "", flags |-> <<>>, riskScore |-> 0,
   scamMatch |-> NoEntry, firstSeen |-> 0, txCount |-> 0, accountAge |-> -1,
   balance |-> -1, isProgram |-> FALSE, accountQueries |-> 0,
   signatureQueries |-> 0]

\* the early return reporting the registry entry of the rejected string
InvalidAddressResult_WithMatch(address) ==
  [address |-> address, safe |-> FALSE, riskScore |-> 100,
   flags |-> <<"INVALID_ADDRESS">>, firstSeen |-> 0, txCount |-> 0,
   accountAge |-> -1, balance |-> -1, isProgram |-> FALSE,
   scamMatch |-> ScamLookupGet(address), accountQueries |-> 0,
   signatureQueries |-> 0]

\* the early return for an address new PublicKey(...) rejects
InvalidAddressResult(address) ==
  [address |-> address, safe |-> FALSE, riskScore |-> 100,
   flags |-> <<"INVALID_ADDRESS">>, firstSeen |-> 0, txCount |-> 0,
   accountAge |-> -1, balance |-> -1, isProgram |-> FALSE,
   scamMatch |-> NoEntry, accountQueries |-> 0, signatureQueries |-> 0]

\* the locals after the scam-database check, up to the first await
ScamCheck(address) ==
  LET scamMatch == ScamLookupGet(address)
  IN  [IdleCheck EXCEPT
         !.pc = "getAccountInfo",
         !.address = address,
         !.scamMatch = scamMatch,
         !.flags = IF scamMatch # NoEntry
                     THEN <<"KNOWN_SCAM: " \o scamMatch.category,
                            "SCAM_DESCRIPTION: " \o scamMatch.description>>
                     ELSE <<>>,
         !.riskScore = IF scamMatch # NoEntry
                         THEN SeverityScore(scamMatch.severity) ELSE 0,
         !.accountQueries = 1]

\* a catch block that issues the failed query again
QueryFailed_Retried(c, flag) ==
  IF flag = "RPC_ERROR"
    THEN [c EXCEPT !.pc = "getAccountInfo",
                   !.accountQueries = c.accountQueries + 1]
    ELSE [c EXCEPT !.pc = "getSignaturesForAddress",
                   !.signatureQueries = c.signatureQueries + 1]

\* a catch block that also raises the score
QueryFailed_Penalised(c, flag) ==
  [c EXCEPT !.pc = "return", !.flags = Append(c.flags, flag),
            !.riskScore = c.riskScore + 10]

\* the catch blocks: the flag is pushed and the function goes on to its
\* return
QueryFailed(c, flag) ==
  [c EXCEPT !.pc = "return", !.flags = Append(c.flags, flag)]

\* the locals after getAccountInfo returned (or threw), up to the next await
AccountStep(c, reply) ==
  IF reply.kind = "error"
    THEN QueryFailed(c, "RPC_ERROR")
  ELSE IF reply.kind = "null"
    THEN [c EXCEPT !.pc = "getSignaturesForAddress",
                   !.flags = Append(c.flags, "ACCOUNT_NOT_FOUND"),
                   !.riskScore = c.riskScore + 15,
                   !.signatureQueries = c.signatureQueries + 1]
  ELSE [c EXCEPT !.pc = "getSignaturesForAddress",
                 !.balance = reply.balance,
                 !.isProgram = reply.executable,
                 !.flags = (IF reply.executable THEN Append(c.flags, "IS_PROGRAM")
                                                ELSE c.flags)
                           \o (IF reply.balance > 100 THEN <<"HIGH_BALANCE">> ELSE <<>>),
                 !.signatureQueries = c.signatureQueries + 1]

\* Math.floor(ageMs / (1000 * 60 * 60 * 24))
AgeDays(blockTime) == (NowSec - blockTime) \div 86400

\* the locals after getSignaturesForAddress returned (or threw)
SignatureStep(c, reply) ==
  IF reply.kind = "error"
    THEN QueryFailed(c, "TX_HISTORY_UNAVAILABLE")
    ELSE
      LET aged == reply.n > 0 /\ reply.oldest # 0
          ageDays == AgeDays(reply.oldest)
          s1 == IF aged /\ ageDays < 1
                  THEN [flags |-> Append(c.flags, "VERY_NEW_ACCOUNT"), riskScore |-> c.riskScore + 20]
                ELSE IF aged /\ ageDays < 7
                  THEN [flags |-> Append(c.flags, "NEW_ACCOUNT"), riskScore |-> c.riskScore + 10]
                ELSE IF aged /\ ageDays < 30
                  THEN [flags |-> Append(c.flags, "RECENT_ACCOUNT"), riskScore |-> c.riskScore + 5]
                ELSE [flags |-> c.flags, riskScore |-> c.riskScore]
          s2 == IF reply.n = 0
                  THEN [flags |-> Append(s1.flags, "NO_TRANSACTION_HISTORY"), riskScore |-> s1.riskScore + 10]
                ELSE IF reply.n = 100
                  THEN [flags |-> Append(s1.flags, "HIGH_ACTIVITY"), riskScore |-> s1.riskScore]
                ELSE s1
          s3 == IF reply.n >= 50 /\ reply.first # 0 /\ reply.last # 0
                   /\ reply.first - reply.last < 3600
                  THEN [flags |-> Append(s2.flags, "RAPID_TRANSACTIONS"), riskScore |-> s2.riskScore + 15]
                  ELSE s2
      IN  [c EXCEPT !.pc = "return",
                    !.txCount = reply.n,
                    !.firstSeen = IF aged THEN reply.oldest ELSE 0,
                    !.accountAge = IF aged THEN ageDays ELSE -1,
                    !.flags = s3.flags,
                    !.riskScore = s3.riskScore]

\* the returned record with safe taken from the score alone
CheckResult_ScoreOnly(c) ==
  LET finalScore == Min(100, Max(0, c.riskScore))
  IN  [address |-> c.address,
       safe |-> finalScore < 30,
       riskScore |-> finalScore,
       flags |-> c.flags, firstSeen |-> c.firstSeen, txCount |-> c.txCount,
       accountAge |-> c.accountAge, balance |-> c.balance,
       isProgram |-> c.isProgram, scamMatch |-> c.scamMatch,
       accountQueries |-> c.accountQueries,
       signatureQueries |-> c.signatureQueries]

\* the cap and the returned record; checkedAt is left out
CheckResult(c) ==
  LET finalScore == Min(100, Max(0, c.riskScore))
  IN  [address |-> c.address,
       safe |-> finalScore < 30 /\ c.scamMatch = NoEntry,
       riskScore |-> finalScore,
       flags |-> c.flags, firstSeen |-> c.firstSeen, txCount |-> c.txCount,
       accountAge |-> c.accountAge, balance |-> c.balance,
       isProgram |-> c.isProgram, scamMatch |-> c.scamMatch,
       accountQueries |-> c.accountQueries,
       signatureQueries |-> c.signatureQueries]

\* ---- agent-scorer (src/unnamed/part_002) ---------------------------------
\* the text of a profile is given by the flags of the patterns that match it
RISK_PATTERNS == <<
  [flag |-> "PROMISES_GUARANTEED_RETURNS", impact |-> -15],
  [flag |-> "ADVANCE_FEE_LANGUAGE",        impact |-> -20],
  [flag |-> "REQUESTS_ELEVATED_ACCESS",    impact |-> -10],
  [flag |-> "REFERENCES_PRIVATE_KEYS",     impact |-> -25],
  [flag |-> "URGENCY_PRESSURE",            impact |-> -10],
  [flag |-> "TRUST_MANIPULATION",          impact |-> -15],
  [flag |-> "DYNAMIC_CODE_EXECUTION",      impact |-> -20],
  [flag |-> "EXFILTRATION_INDICATORS",     impact |-> -30]
>>

SECURITY_PATTERNS == <<
  [flag |-> "HAS_RATE_LIMITING", impact |-> 10],
  [flag |-> "INPUT_VALIDATION",  impact |-> 10],
  [flag |-> "USES_ENCRYPTION",   impact |-> 8],
  [flag |-> "SECURITY_AWARE",    impact |-> 5],
  [flag |-> "SECURITY_HEADERS",  impact |-> 8],
  [flag |-> "HAS_TESTS",         impact |-> 10],
  [flag |-> "TYPED_LANGUAGE",    impact |-> 5],
  [flag |-> "ERROR_HANDLING",    impact |-> 5]
>>

\* the chain of returns from A+ down to F
gradeFromScore(score) ==
  IF score >= 95 THEN "A+"
  ELSE IF score >= 90 THEN "A"
  ELSE IF score >= 85 THEN "A-"
  ELSE IF score >= 80 THEN "B+"
  ELSE IF score >= 75 THEN "B"
  ELSE IF score >= 70 THEN "B-"
  ELSE IF score >= 65 THEN "C+"
  ELSE IF score >= 60 THEN "C"
  ELSE IF score >= 55 THEN "C-"
  ELSE IF score >= 50 THEN "D+"
  ELSE IF score >= 45 THEN "D"
  ELSE IF score >= 40 THEN "D-"
  ELSE "F"

\* the for loops over RISK_PATTERNS and SECURITY_PATTERNS from pattern k
\* on: the flags pushed and the impacts added for a text matching `matches`
RECURSIVE PatternLoop(_, _, _)
PatternLoop(patterns, k, matches) ==
  IF k > Len(patterns) THEN [flags |-> <<>>, impact |-> 0]
  ELSE LET rest == PatternLoop(patterns, k + 1, matches)
       IN  IF patterns[k].flag \in matches
             THEN [flags |-> <<patterns[k].flag>> \o rest.flags,
                   impact |-> patterns[k].impact + rest.impact]
             ELSE rest

\* the clamp without its lower limit
Clamp_NoFloor(score) == Min(100, score)

\* the clamp without its ceiling
Clamp_NoCeiling(score) == Max(0, score)

\* Math.max(0, Math.min(100, score))
Clamp(score) == Max(0, Min(100, score))

\* Math.round of the weighted average, computed in hundredths: the weights
\* are 30, 20, 15, 15 and 20 hundredths
Overall(security, output, reputation, integration, risk) ==
  (security * 30 + output * 20 + reputation * 15 + integration * 15
     + risk * 20 + 50) \div 100

\* scoreAgent(profile, codeContent); scoredAt is left out.  profile.matches
\* are the flags of the patterns that match textToAnalyze, description and
\* codeContent are given by their lengths, line counts and the matches of
\* the code-only regexes
scoreAgent(profile, codeContent) ==
  LET rp == PatternLoop(RISK_PATTERNS, 1, profile.matches)
      sp == PatternLoop(SECURITY_PATTERNS, 1, profile.matches)
      envVars == codeContent.truthy /\ codeContent.processEnv
      envLeak == codeContent.truthy /\ codeContent.dotEnv /\ ~codeContent.gitignore
      todo    == codeContent.truthy /\ codeContent.todo
      logging == codeContent.truthy /\ codeContent.consoleLog
      hasUrl  == profile.codeUrl # ""
      github  == profile.codeUrl = "https://github.com/agent/repo"
      securityScore0 == 50 + sp.impact + (IF envVars THEN 5 ELSE 0)
                           - (IF envLeak THEN 10 ELSE 0)
      outputScore0 == 30
        + (IF codeContent.truthy /\ codeContent.lines > 100 THEN 15 ELSE 0)
        + (IF codeContent.truthy /\ codeContent.lines > 500 THEN 15 ELSE 0)
        + (IF codeContent.truthy /\ codeContent.lines > 1000 THEN 10 ELSE 0)
        - (IF todo THEN 5 ELSE 0)
        + (IF profile.descriptionLength > 200 THEN 10 ELSE 0)
        + (IF profile.descriptionLength > 500 THEN 5 ELSE 0)
      reputationScore0 == 50
      integrationScore0 == 30
        + (IF hasUrl THEN 20 ELSE 0) + (IF github THEN 10 ELSE 0)
        + (IF profile.walletAddress THEN 15 ELSE 0)
        + (IF profile.skills > 0 THEN Min(profile.skills * 5, 20) ELSE 0)
      riskScore0 == 80 + rp.impact
      securityScore == Clamp(securityScore0)
      outputScore == Clamp(outputScore0)
      reputationScore == Clamp(reputationScore0)
      integrationScore == Clamp(integrationScore0)
      riskScore == Clamp(riskScore0)
      overall == Overall(securityScore, outputScore, reputationScore,
                         integrationScore, riskScore)
  IN  [overallScore |-> overall,
       grade |-> gradeFromScore(overall),
       dimensions |-> [security |-> securityScore, output |-> outputScore,
                       reputation |-> reputationScore,
                       integration |-> integrationScore, risk |-> riskScore],
       flags |-> rp.flags \o sp.flags
                 \o (IF envVars THEN <<"USES_ENV_VARS">> ELSE <<>>)
                 \o (IF envLeak THEN <<"POSSIBLE_ENV_LEAK">> ELSE <<>>)
                 \o (IF todo THEN <<"HAS_TODO_COMMENTS">> ELSE <<>>)
                 \o (IF logging THEN <<"DEBUG_LOGGING">> ELSE <<>>)
                 \o (IF github THEN <<"PUBLIC_REPO">> ELSE <<>>)
                 \o (IF profile.walletAddress THEN <<"HAS_WALLET">> ELSE <<>>),
       recommendations |->
         (IF envLeak THEN <<"Ensure .env files are in .gitignore">> ELSE <<>>)
         \o (IF logging THEN <<"Remove console.log statements in production">> ELSE <<>>)
         \o (IF securityScore < 60 THEN <<"Improve code security practices">> ELSE <<>>)
         \o (IF outputScore < 40
               THEN <<"Increase verifiable output (public code, demos)">> ELSE <<>>)
         \o (IF integrationScore < 40
               THEN <<"Improve ecosystem integration (wallet, repo, skills)">> ELSE <<>>)
         \o (IF riskScore < 60 THEN <<"Address identified risk flags">> ELSE <<>>),
       uncapped |-> [security |-> securityScore0, output |-> outputScore0,
                     reputation |-> reputationScore0,
                     integration |-> integrationScore0, risk |-> riskScore0]]

\* ---- data/threat-store.ts -------------------------------------------------
maxSize == 10000

\* the store after construction; startedAt is left out
EmptyStore ==
  [threats |-> <<>>,
   stats |-> [totalScans |-> 0, totalAddressChecks |-> 0, totalTxValidations |-> 0,
              threatsDetected |-> 0, blockedTransactions |-> 0]]

\* addThreat with the entry pushed at the tail instead of the head
addThreat_Push(store, threat) ==
  LET entry == [type |-> threat.type, severity |-> threat.severity,
                seq |-> store.stats.threatsDetected + 1]
      threats == store.threats \o <<entry>>
  IN  [threats |-> IF Len(threats) > maxSize THEN SubSeq(threats, 1, maxSize)
                                             ELSE threats,
       stats |-> [store.stats EXCEPT !.threatsDetected = @ + 1]]

\* addThreat: the entry is put at the head and the list cut to maxSize; the
\* id and the timestamp of an entry are stood for by the ordinal of the
\* call, title, description and metadata are left out
addThreat(store, threat) ==
  LET entry == [type |-> threat.type, severity |-> threat.severity,
                seq |-> store.stats.threatsDetected + 1]
      threats == <<entry>> \o store.threats
  IN  [threats |-> IF Len(threats) > maxSize THEN SubSeq(threats, 1, maxSize)
                                             ELSE threats,
       stats |-> [store.stats EXCEPT !.threatsDetected = @ + 1]]

incrementScans(store) == [store EXCEPT !.stats.totalScans = @ + 1]

incrementAddressChecks(store) == [store EXCEPT !.stats.totalAddressChecks = @ + 1]

incrementTxValidations(store) == [store EXCEPT !.stats.totalTxValidations = @ + 1]

incrementBlocked(store) == [store EXCEPT !.stats.blockedTransactions = @ + 1]

\* ---- routes ----------------------------------------------------------------
\* a value of a JSON body: undefined, a number, a string or an object; a
\* string field carries what the handler reads of it
Undefined == [kind |-> "undefined"]

\* the truthiness the handlers test with ! and ||
Truthy(v) ==
  CASE v.kind = "undefined" -> FALSE
    [] v.kind = "object"    -> TRUE
    [] v.kind = "number"    -> v.value # 0
    [] v.kind = "string"    -> v.length > 0

NoResult == [none |-> TRUE]

\* what a handler hands back: the store it leaves, the response it sends
\* and the scoring functions it called
Respond(store, status, error, result, calls) ==
  [store |-> store, status |-> status, error |-> error, result |-> result,
   calls |-> calls]

\* a 400 answer that is also counted as a scan
Reject_Counted(store, error) ==
  Respond(incrementScans(store), 400, error, NoResult, <<>>)

\* return res.status(400).json({ error })
Reject(store, error) == Respond(store, 400, error, NoResult, <<>>)

\* new URL(url) succeeds
UrlParses(url) == url.value # "not a url"

\* parsedUrl.hostname.toLowerCase() of the sampled URLs
Hostname(url) ==
  CASE url.value = "http://localhost:3005/api/status" -> "localhost"
    [] url.value = "http://192.168.1.10/plugin.js"    -> "192.168.1.10"
    [] OTHER                                          -> "example.com"

\* the internal/private host test of the scan route
PrivateHost(hostname) ==
  \/ hostname \in {"localhost", "127.0.0.1", "0.0.0.0"}
  \/ SubSeq(hostname, 1, 8) = "192.168."
  \/ SubSeq(hostname, 1, 3) = "10."
  \/ SubSeq(hostname, 1, 4) = "172."

\* the scan route up to the scan or the fetch: the error it answers with,
\* or what it goes on to do
ScanRequestCheck(body) ==
  IF ~Truthy(body.url) /\ ~Truthy(body.code)
    THEN [next |-> "reject", error |-> "Either \"url\" or \"code\" must be provided"]
  ELSE IF Truthy(body.code)
    THEN IF body.code.kind # "string"
           THEN [next |-> "reject", error |-> "\"code\" must be a string"]
         ELSE IF body.code.length > 1000000
           THEN [next |-> "reject", error |-> "Code too large (max 1MB)"]
         ELSE [next |-> "scan", error |-> ""]
  ELSE IF body.url.kind # "string"
    THEN [next |-> "reject", error |-> "\"url\" must be a string"]
  ELSE IF ~UrlParses(body.url)
    THEN [next |-> "reject", error |-> "Invalid URL format"]
  ELSE IF PrivateHost(Hostname(body.url))
    THEN [next |-> "reject", error |-> "Cannot scan internal/private URLs"]
  ELSE [next |-> "fetch", error |-> ""]

\* the scan route's threat log: a detection is logged from risk score 50 on
ScanLogged(store, riskScore) ==
  IF riskScore >= 50
    THEN addThreat(store,
           [type |-> "scan_detection",
            severity |-> IF riskScore >= 80 THEN "critical"
                         ELSE IF riskScore >= 50 THEN "high"
                         ELSE "medium"])
    ELSE store

\* the scan route once scanCode returned r
ScanAnswer(store, r) ==
  [answer |-> Respond(ScanLogged(incrementScans(store), r.result.riskScore),
                      200, "", r.result, <<"scanCode">>),
   cursors |-> r.cursors]

\* the scan route from threatStore.incrementScans() on; the write to the
\* chain is fire-and-forget and left out
ScanAndRespond(store, sourceCode, cursors) ==
  ScanAnswer(store, scanCode(sourceCode, cursors))

\* the scan route after the fetch settled
FetchStep(store, outcome, cursors) ==
  IF outcome.kind = "throws"
    THEN [answer |-> Reject(store, "Failed to fetch URL: error"), cursors |-> cursors]
  ELSE IF ~outcome.ok
    THEN [answer |-> Reject(store, "Failed to fetch URL: HTTP 404"), cursors |-> cursors]
  ELSE ScanAndRespond(store, outcome.text, cursors)

\* the check route's test of req.params.address
CheckParamRejected(address) ==
  address = "" \/ Len(address) < 32 \/ Len(address) > 44

\* the check route after checkAddress returned
CheckRespond(store, result) ==
  Respond(IF result.riskScore >= 30
            THEN addThreat(store,
                   [type |-> "address_flag",
                    severity |-> IF result.riskScore >= 70 THEN "critical"
                                 ELSE IF result.riskScore >= 40 THEN "high"
                                 ELSE "medium"])
            ELSE store,
          200, "", result, <<"checkAddress">>)

\* the validate-tx route's threat log: a block is counted and logged as
\* critical, a review is logged as high
TxLogged(store, recommendation) ==
  IF recommendation = "block"
    THEN addThreat(incrementBlocked(store),
                   [type |-> "tx_block", severity |-> "critical"])
  ELSE IF recommendation = "review"
    THEN addThreat(store, [type |-> "tx_block", severity |-> "high"])
  ELSE store

\* the validate-tx route once validateTransaction returned r
TxAnswer(store, r) ==
  [answer |-> Respond(TxLogged(incrementTxValidations(store),
                               r.result.recommendation),
                      200, "", r.result, <<"validateTransaction">>),
   cursors |-> r.cursors]

\* the validate-tx route once validateTransaction returned r for a
\* destination that is not a string: destination.substring is not a
\* function, so the title of the threat entry throws after incrementBlocked
\* and before addThreat is called, and the catch answers 500
TxThrows(store, r) ==
  IF r.result.recommendation = "proceed"
    THEN TxAnswer(store, r)
    ELSE [answer |-> Respond(IF r.result.recommendation = "block"
                               THEN incrementBlocked(incrementTxValidations(store))
                               ELSE incrementTxValidations(store),
                             500, "Internal validation error", NoResult,
                             <<"validateTransaction">>),
          cursors |-> r.cursors]

\* the request the validate-tx route builds from the body
TxRequest(body) ==
  [destination |-> body.destination.value,
   amount2 |-> body.amount.value,
   token |-> IF body.token = "" THEN "SOL" ELSE body.token,
   context |-> body.context]

\* the validate-tx route
ValidateTxHandler(store, body, cursors) ==
  IF ~Truthy(body.destination)
    THEN [answer |-> Reject(store, "\"destination\" is required"), cursors |-> cursors]
  ELSE IF body.amount.kind # "number"
    THEN [answer |-> Reject(store, "\"amount\" must be a valid number"),
          cursors |-> cursors]
  ELSE IF body.destination.kind = "string"
    THEN TxAnswer(store, validateTransaction(TxRequest(body), cursors))
  ELSE TxThrows(store, validateTransaction(TxRequest(body), cursors))

\* ---- the score route and scoreFromUrl ------------------------------------
\* a description that is absent; a text the route reads is given by its
\* length and by the flags of the patterns it matches
NoDescription == [length |-> 0, matches |-> {}]

\* codeContent undefined or ''
NoCode ==
  [truthy |-> FALSE, lines |-> 0, processEnv |-> FALSE, dotEnv |-> FALSE,
   gitignore |-> FALSE, todo |-> FALSE, consoleLog |-> FALSE]

\* no code: code undefined or '', a fetch that failed or gave no text
NoCodeGiven == [content |-> NoCode, matches |-> {}]

\* const profile = { name, codeUrl, walletAddress, skills, description }
RouteProfile(body) ==
  [description |-> body.description, codeUrl |-> body.codeUrl,
   walletAddress |-> body.walletAddress, skills |-> body.skills]

\* the profile scoreFromUrl builds: { name, codeUrl }
UrlProfile(codeUrl) ==
  [description |-> NoDescription, codeUrl |-> codeUrl, walletAddress |-> FALSE,
   skills |-> 0]

\* scoreAgent(profile, codeContent) as the route calls it: textToAnalyze is
\* the description, the code and the skills joined, and it matches the
\* patterns its parts match (the sampled skills match none)
ScoreCall(profile, code) ==
  [profile |-> profile,
   codeContent |-> code.content,
   result |-> scoreAgent([matches |-> profile.description.matches \cup code.matches,
                          descriptionLength |-> profile.description.length,
                          codeUrl |-> profile.codeUrl,
                          walletAddress |-> profile.walletAddress,
                          skills |-> profile.skills],
                         code.content)]

\* scoreFromUrl(name, codeUrl) once the fetch settled: the text of an ok
\* response is the code, anything else leaves codeContent undefined; the
\* name is left out
scoreFromUrl(codeUrl, outcome) ==
  ScoreCall(UrlProfile(codeUrl),
            IF outcome.kind = "response" /\ outcome.ok THEN outcome.text
                                                         ELSE NoCodeGiven)

\* the answer of the score route to a call that returned
ScoreAnswer(req, call) ==
  [op |-> "POST /api/score", req |-> req, status |-> 200, error |-> "",
   calls |-> <<"scoreAgent">>, profile |-> call.profile,
   codeContent |-> call.codeContent, result |-> call.result]

\* ---- routes/threats (src/unnamed/part_001), ThreatStore.getThreats -------
\* the result of a conversion to a number: NaN, or a value
NaN == [nan |-> TRUE, value |-> 0]

Num(n) == [nan |-> FALSE, value |-> n]

\* parseInt(req.query.limit) on the sampled query strings; an absent
\* parameter is undefined, which parses to NaN
ParseInt(v) ==
  IF v.kind = "undefined" THEN NaN
  ELSE CASE v.value = "0"    -> Num(0)
         [] v.value = "1"    -> Num(1)
         [] v.value = "10"   -> Num(10)
         [] v.value = "-5"   -> Num(-5)
         [] v.value = "2.9"  -> Num(2)
         [] v.value = "200"  -> Num(200)
         [] v.value = "201"  -> Num(201)
         [] v.value = "5000" -> Num(5000)
         [] OTHER            -> NaN

\* Math.min(200, Math.max(1, parseInt(req.query.limit) || 50))
RouteLimit(v) ==
  LET OrDefault(n) == IF n.nan \/ n.value = 0 THEN 50 ELSE n.value
  IN  Min(200, Max(1, OrDefault(ParseInt(v))))

\* new Date(t.timestamp): the clock is read once in every addThreat, and
\* the time of the n-th call stands at n
Timestamp(entry) == entry.seq

\* new Date(since).getTime() of a sampled string
DateParse(since) == since.time

\* Array.prototype.slice(0, end) for an integral end
Slice(list, end) ==
  LET k == IF end < 0 THEN Max(Len(list) + end, 0) ELSE Min(end, Len(list))
  IN  SubSeq(list, 1, k)

\* the feed without its cut to the limit
getThreats_Unsliced(store, since, limit) ==
  IF since.kind = "string" /\ since.length > 0 /\ ~DateParse(since).nan
    THEN LET NotBefore(t) == Timestamp(t) >= DateParse(since).value
         IN  SelectSeq(store.threats, NotBefore)
    ELSE store.threats

\* getThreats(since, limit)
getThreats(store, since, limit) ==
  LET Cut(results) == Slice(results, Min(limit, 200))
  IN  Cut(IF since.kind = "string" /\ since.length > 0 /\ ~DateParse(since).nan
            THEN LET NotBefore(t) == Timestamp(t) >= DateParse(since).value
                 IN  SelectSeq(store.threats, NotBefore)
            ELSE store.threats)

\* the body of the feed's answer; fetchedAt is left out
ThreatsAnswer(threats, limit, since) ==
  [threats |-> threats, count |-> Len(threats), limit |-> limit,
   since |-> IF since.kind = "string" /\ since.length > 0 THEN since.value
             ELSE "null"]

\* ---- inputs -------------------------------------------------------------
MaxCtx == 2

Texts ==
  UNION {[1..n -> Alphabet] \cup [1..n -> AlphabetTheft] \cup [1..n -> AlphabetWallet] :
           n \in 0..MaxLen}

\* length in characters and entropy (thousandths of a bit) of the non-empty
\* strings: either side of both thresholds of the entropy boost
Profiles == {<<500, 5501>>, <<501, 5500>>, <<501, 5501>>}

\* a scanned string: its match structure, its length and its entropy; the
\* empty string is the one of length 0
CodeInputs ==
  {[text |-> <<>>, length |-> 0, entropy |-> 0]}
  \cup {[text |-> t, length |-> p[1], entropy |-> p[2]] : t \in Texts, p \in Profiles}

CtxTexts == UNION {[1..n -> CtxAlphabet] : n \in 0..MaxCtx}

\* length of the shortest fragment each context pattern matches
\* ("fast", "10x", "exclusive", "legit", "admin", "send" + "first",
\*  "verify" + "wallet", "claim" + "token")
CtxMinLength == <<4, 3, 9, 5, 5, 9, 12, 10>>

RECURSIVE SumMinLength(_, _)
SumMinLength(text, i) ==
  IF i > Len(text) THEN 0 ELSE CtxMinLength[text[i]] + SumMinLength(text, i + 1)

\* req.context: undefined or '' (not truthy), or a string with the length
\* of its trim()
Contexts ==
  {[truthy |-> FALSE, text |-> <<>>, trimLength |-> 0]}
  \cup UNION {{[truthy |-> TRUE, text |-> t, trimLength |-> n] :
                  n \in {m \in {0, 4, 5, 60} : m >= SumMinLength(t, 1)}} :
                t \in CtxTexts}

\* 2 * req.amount: -1, 0, 0.5, 10, 10.5, 100, 100.5 and 10001
Amount2Sample == {-2, 0, 1, 20, 21, 200, 201, 20002}

\* no token, a table key, a table key in lower case and an unknown symbol
TokenSample == {"", "SOL", "jup", "XYZ"}

TxRequests ==
  [destination : AddressSample, amount2 : Amount2Sample, token : TokenSample,
   context : Contexts]

\* sets of pattern flags a scored text matches: none, one risk pattern, five
\* security patterns, every security pattern, and every pattern
MatchSample ==
  LET all(patterns) == {patterns[k].flag : k \in 1..Len(patterns)}
  IN  {{},
       {"REFERENCES_PRIVATE_KEYS"},
       {"HAS_RATE_LIMITING", "INPUT_VALIDATION", "USES_ENCRYPTION",
        "SECURITY_HEADERS", "HAS_TESTS"},
       {"EXFILTRATION_INDICATORS", "HAS_TESTS"},
       all(SECURITY_PATTERNS),
       all(RISK_PATTERNS) \cup all(SECURITY_PATTERNS)}

\* codeContent: undefined or '', or a string with its number of lines
\* (either side of 100, 500 and 1000) and the code-only regexes it matches;
\* a text holding process.env holds .env
CodeSample ==
  {NoCode}
  \cup {[truthy |-> TRUE, lines |-> n, processEnv |-> f[1], dotEnv |-> f[2],
         gitignore |-> f[3], todo |-> f[4], consoleLog |-> f[5]] :
          n \in {1, 100, 101, 500, 501, 1000, 1001},
          f \in {<<FALSE, FALSE, FALSE, FALSE, FALSE>>,
                 <<TRUE, TRUE, FALSE, FALSE, TRUE>>,
                 <<FALSE, TRUE, TRUE, TRUE, FALSE>>}}

\* profiles: the patterns matched, the length of the description (0 when
\* absent), the repository URL ('' when absent), whether a wallet address
\* is given and the number of skills
AgentProfiles ==
  [matches : MatchSample,
   descriptionLength : {0, 200, 201, 501},
   codeUrl : {"", "https://gitlab.com/agent/repo", "https://github.com/agent/repo"},
   walletAddress : BOOLEAN,
   skills : {0, 1, 5}]

\* a request with no text at all matches no pattern
ScoreRequests ==
  {r \in [profile : AgentProfiles, codeContent : CodeSample] :
     (r.profile.matches # {}) =>
       (r.profile.descriptionLength > 0 \/ r.codeContent.truthy
          \/ r.profile.skills > 0)}

\* ---- requests to the routes ----------------------------------------------
MaxRequests == 1

\* strings posted as code: '', four strings scoring 0, 25, 50, 75 and 100,
\* and a string of 1,000,001 characters
RouteCodes ==
  {[kind |-> "string", text |-> t, length |-> 40 * Len(t) + 20, entropy |-> 4000] :
     t \in {<<>>, <<14>>, <<1, 14>>, <<14, 18>>, <<1, 14, 18>>}}

EmptyString == [kind |-> "string", text |-> <<>>, length |-> 0, entropy |-> 0]

OversizeCode ==
  [kind |-> "string", text |-> <<14>>, length |-> 1000001, entropy |-> 4000]

CodeFields ==
  {Undefined, [kind |-> "number", value |-> 5], EmptyString, OversizeCode}
  \cup RouteCodes

UrlFields ==
  {Undefined, [kind |-> "number", value |-> 5]}
  \cup {[kind |-> "string", value |-> u, length |-> Len(u)] :
          u \in {"not a url", "http://localhost:3005/api/status",
                 "http://192.168.1.10/plugin.js", "https://example.com/plugin.js"}}

ScanBodies == [url : UrlFields, code : CodeFields]

\* what fetch(url) and response.text() settle to
FetchOutcomes ==
  {[kind |-> "throws", ok |-> FALSE, text |-> EmptyString],
   [kind |-> "response", ok |-> FALSE, text |-> EmptyString]}
  \cup {[kind |-> "response", ok |-> TRUE, text |-> c] :
          c \in {EmptyString} \cup RouteCodes}

\* req.params.address: the sampled addresses and a string of 45 characters
CheckParams ==
  {"not-a-valid-address",
   "HoneyPoT1111111111111111111111111111111111",
   "Htp9MGP8Tig923ZFY7Qf2zzbMUmYneFRAhSp7vSg4wxV",
   "9WzDXwBbmkg8ZTbNMqUxvQRAyrZzDsGYdLVL9zYtAWWM",
   "So11111111111111111111111111111111111111112",
   "111111111111111111111111111111111111111111111"}

\* ledger replies to the checks made by the check route
RouteAccountReplies ==
  {r \in AccountReplies : r.kind # "info" \/ (r.balance = 0 /\ ~r.executable)}

RouteSignatureReplies ==
  {r \in SignatureReplies :
     r.kind = "error" \/ r.n = 0
       \/ (r.n = 1 /\ r.oldest \in {NowSec - 86399, NowSec - 2592000})}

ValidateTxBodies ==
  [destination : {Undefined, [kind |-> "string", value |-> "", length |-> 0],
                  [kind |-> "object", value |-> JsonObject]}
                 \cup {[kind |-> "string", value |-> a, length |-> Len(a)] :
                         a \in {"Htp9MGP8Tig923ZFY7Qf2zzbMUmYneFRAhSp7vSg4wxV",
                                "11111111111111111111111111111111"}},
   amount : {Undefined, [kind |-> "string", value |-> "1.5", length |-> 3],
             [kind |-> "number", value |-> 1], [kind |-> "number", value |-> 20002]},
   token : {"", "XYZ"},
   context : {[truthy |-> FALSE, text |-> <<>>, trimLength |-> 0],
              [truthy |-> TRUE, text |-> <<6>>, trimLength |-> 60]}]

\* ---- requests to the score route -----------------------------------------
\* descriptions: absent, 201 characters naming a mnemonic, 501 characters
\* naming tests
DescriptionFields ==
  {NoDescription,
   [length |-> 201, matches |-> {"REFERENCES_PRIVATE_KEYS"}],
   [length |-> 501, matches |-> {"HAS_TESTS"}]}

\* a text of n lines that matches the flags and none of the code-only regexes
CodeText(n, flags) ==
  [content |-> [truthy |-> TRUE, lines |-> n, processEnv |-> FALSE,
                dotEnv |-> FALSE, gitignore |-> FALSE, todo |-> FALSE,
                consoleLog |-> FALSE],
   matches |-> flags]

\* bodies of POST /api/score: name '' or given, the profile fields, and the
\* code field absent or a text of 101 lines calling eval(; fields that are
\* not of the documented types are not sampled
ScoreBodies ==
  [name : {"", "agent"},
   description : DescriptionFields,
   codeUrl : {"", "https://gitlab.com/agent/repo", "https://github.com/agent/repo"},
   walletAddress : BOOLEAN,
   skills : {0, 1, 5},
   code : {NoCodeGiven, CodeText(101, {"DYNAMIC_CODE_EXECUTION"})}]

\* what the fetch of scoreFromUrl does: it throws, it answers 404, it
\* answers '' or a text of 501 lines naming a throttle
ScoreFetchOutcomes ==
  {[kind |-> "throws", ok |-> FALSE, text |-> NoCodeGiven],
   [kind |-> "response", ok |-> FALSE, text |-> NoCodeGiven],
   [kind |-> "response", ok |-> TRUE, text |-> NoCodeGiven],
   [kind |-> "response", ok |-> TRUE, text |-> CodeText(501, {"HAS_RATE_LIMITING"})]}

\* ---- the threat store and its feed ---------------------------------------
\* addThreat calls made on top of a drawn store
MaxAdds == 2

\* the threats the three routes log
LoggedThreats ==
  <<[type |-> "scan_detection", severity |-> "critical"],
    [type |-> "scan_detection", severity |-> "high"],
    [type |-> "address_flag", severity |-> "critical"],
    [type |-> "address_flag", severity |-> "high"],
    [type |-> "address_flag", severity |-> "medium"],
    [type |-> "tx_block", severity |-> "critical"],
    [type |-> "tx_block", severity |-> "high"]>>

\* the store after n addThreat calls that went through LoggedThreats in
\* turn, for n <= maxSize
StoreAfter(n) ==
  [threats |-> [i \in 1..n |->
                  [type |-> LoggedThreats[((n - i) % Len(LoggedThreats)) + 1].type,
                   severity |-> LoggedThreats[((n - i) % Len(LoggedThreats)) + 1].severity,
                   seq |-> n + 1 - i]],
   stats |-> [EmptyStore.stats EXCEPT !.threatsDetected = n]]

\* store sizes the feed is read at: around the default limit and the cap
FeedSizes == {0, 49, 199}

\* store sizes threats are added at: empty, one below full, and full
StoreSizes == {0, maxSize - 1, maxSize}

\* req.query.limit
LimitFields ==
  {Undefined}
  \cup {[kind |-> "string", value |-> v] : v \in {"0", "10", "-5", "200", "5000", "abc"}}

\* req.query.since: absent, '', a string that is no date, and dates at the
\* times of the 5th and the 200th addThreat
SinceFields ==
  {[kind |-> "undefined", value |-> "", length |-> 0, time |-> NaN],
   [kind |-> "string", value |-> "", length |-> 0, time |-> NaN],
   [kind |-> "string", value |-> "not-a-date", length |-> 10, time |-> NaN],
   [kind |-> "string", value |-> "date 5", length |-> 24, time |-> Num(5)],
   [kind |-> "string", value |-> "date 200", length |-> 24, time |-> Num(200)]}

ThreatQueries == [since : SinceFields, limit : LimitFields]

\* ---- state --------------------------------------------------------------
VARIABLES
  lastIndex,     \* lastIndex of the regex of every rule of PATTERNS
  ctxLastIndex,  \* lastIndex of the regex of every context pattern
  last,          \* the latest call or request: its operation and its answer
  chk,           \* the locals of the checkAddress call in flight
  threatStore,   \* the singleton ThreatStore of the server
  fetching       \* the scan request waiting for its fetch

vars == <<lastIndex, ctxLastIndex, last, chk, threatStore, fetching>>

NotFetching == [pc |-> "idle"]

Init ==
  /\ lastIndex = [k \in Rules |-> 0]
  /\ ctxLastIndex = [k \in CtxPatterns |-> 0]
  /\ last = [op |-> "none"]
  /\ chk = IdleCheck
  /\ threatStore = EmptyStore
  /\ fetching = NotFetching

\* direct calls of the scanners are those of the test script, which runs
\* without the server: they are made one at a time, and the caller takes
\* the result of a call before the next call is made
Ready ==
  /\ last.op = "none"
  /\ chk.pc = "idle"
  /\ threatStore = EmptyStore
  /\ fetching = NotFetching

\* scanCode is synchronous: one call is one step
ScanCode(code) ==
  /\ Ready
  /\ \E r \in {scanCode(code, lastIndex)} :
         /\ last' = [op |-> "scanCode", req |-> code, result |-> r.result,
                     raw |-> r.raw, base |-> r.base, starts |-> r.starts,
                     before |-> lastIndex]
         /\ lastIndex' = r.cursors
  /\ UNCHANGED <<ctxLastIndex, chk, threatStore, fetching>>

\* validateTransaction is synchronous: one call is one step
ValidateTransaction(req) ==
  /\ Ready
  /\ \E r \in {validateTransaction(req, ctxLastIndex)} :
         /\ last' = [op |-> "validateTransaction", req |-> req,
                     result |-> r.result, starts |-> r.starts,
                     before |-> ctxLastIndex]
         /\ ctxLastIndex' = r.cursors
  /\ UNCHANGED <<lastIndex, chk, threatStore, fetching>>

\* checkAddress up to its first await, or to its early return
CheckAddress(address) ==
  /\ Ready
  /\ IF ~IsPublicKey(address)
       THEN /\ last' = [op |-> "checkAddress", req |-> address,
                        result |-> InvalidAddressResult(address)]
            /\ chk' = chk
       ELSE /\ last' = [op |-> "checkAddress-pending", req |-> address]
            /\ chk' = [ScamCheck(address) EXCEPT !.caller = "test"]
  /\ UNCHANGED <<lastIndex, ctxLastIndex, threatStore, fetching>>

\* the answer of a route as the client gets it
Answer(op, req, a) ==
  [op |-> op, req |-> req, status |-> a.status, error |-> a.error,
   result |-> a.result, calls |-> a.calls]

\* the server handles at most MaxRequests requests that are not rejected
Accepted ==
  threatStore.stats.totalScans + threatStore.stats.totalAddressChecks
    + threatStore.stats.totalTxValidations
    + (IF fetching = NotFetching THEN 0 ELSE 1)

\* checkAddress returns: to the test script, or into the check route
Return(c) ==
  /\ chk' = IdleCheck
  /\ IF c.caller = "route"
       THEN \E a \in {CheckRespond(threatStore, CheckResult(c))} :
              /\ last' = Answer("GET /api/check/:address", c.address, a)
              /\ threatStore' = a.store
       ELSE /\ last' = [op |-> "checkAddress", req |-> c.address,
                        result |-> CheckResult(c)]
            /\ threatStore' = threatStore

\* conn.getAccountInfo settles
GetAccountInfoReturns(reply) ==
  /\ chk.pc = "getAccountInfo"
  /\ last.op = IF chk.caller = "route" THEN "none" ELSE "checkAddress-pending"
  /\ chk.caller = "route" => reply \in RouteAccountReplies
  /\ \E c \in {AccountStep(chk, reply)} :
         IF c.pc = "return" THEN Return(c)
         ELSE chk' = c /\ last' = last /\ threatStore' = threatStore
  /\ UNCHANGED <<lastIndex, ctxLastIndex, fetching>>

\* conn.getSignaturesForAddress settles
GetSignaturesReturns(reply) ==
  /\ chk.pc = "getSignaturesForAddress"
  /\ last.op = IF chk.caller = "route" THEN "none" ELSE "checkAddress-pending"
  /\ chk.caller = "route" => reply \in RouteSignatureReplies
  /\ Return(SignatureStep(chk, reply))
  /\ UNCHANGED <<lastIndex, ctxLastIndex, fetching>>

\* scoreAgent is synchronous and keeps no state between calls
ScoreAgent(profile, codeContent) ==
  /\ Ready
  /\ last' = [op |-> "scoreAgent",
              req |-> [profile |-> profile, codeContent |-> codeContent],
              result |-> scoreAgent(profile, codeContent)]
  /\ UNCHANGED <<lastIndex, ctxLastIndex, chk, threatStore, fetching>>

\* POST /api/scan up to its answer, or to the await of the fetch
ScanRoute(body) ==
  /\ last.op = "none"
  /\ \E c \in {ScanRequestCheck(body)} :
       CASE c.next = "reject" ->
              /\ last' = Answer("POST /api/scan", body, Reject(threatStore, c.error))
              /\ UNCHANGED <<lastIndex, threatStore, fetching>>
         [] c.next = "scan" ->
              /\ Accepted < MaxRequests
              /\ \E r \in {ScanAndRespond(threatStore, body.code, lastIndex)} :
                    /\ last' = Answer("POST /api/scan", body, r.answer)
                    /\ threatStore' = r.answer.store
                    /\ lastIndex' = r.cursors
              /\ UNCHANGED fetching
         [] c.next = "fetch" ->
              /\ Accepted < MaxRequests
              /\ fetching = NotFetching
              /\ fetching' = [pc |-> "fetch", body |-> body]
              /\ UNCHANGED <<last, lastIndex, threatStore>>
  /\ UNCHANGED <<ctxLastIndex, chk>>

\* the fetch of the scan route settles
FetchSettles(outcome) ==
  /\ fetching.pc = "fetch"
  /\ last.op = "none"
  /\ \E r \in {FetchStep(threatStore, outcome, lastIndex)} :
        /\ last' = Answer("POST /api/scan",
                          [url |-> fetching.body.url, code |-> fetching.body.code,
                           fetched |-> outcome],
                          r.answer)
        /\ threatStore' = r.answer.store
        /\ lastIndex' = r.cursors
  /\ fetching' = NotFetching
  /\ UNCHANGED <<ctxLastIndex, chk>>

\* GET /api/check/:address up to its answer, or to the first await of
\* checkAddress
CheckRoute(address) ==
  /\ last.op = "none"
  /\ IF CheckParamRejected(address)
       THEN /\ last' = Answer("GET /api/check/:address", address,
                              Reject(threatStore,
                                     "Invalid Solana address format. Must be 32-44 characters."))
            /\ UNCHANGED <<threatStore, chk>>
       ELSE /\ Accepted < MaxRequests
            /\ chk.pc = "idle"
            /\ IF ~IsPublicKey(address)
                 THEN \E a \in {CheckRespond(incrementAddressChecks(threatStore),
                                             InvalidAddressResult(address))} :
                        /\ last' = Answer("GET /api/check/:address", address, a)
                        /\ threatStore' = a.store
                        /\ chk' = chk
                 ELSE /\ threatStore' = incrementAddressChecks(threatStore)
                      /\ chk' = [ScamCheck(address) EXCEPT !.caller = "route"]
                      /\ last' = last
  /\ UNCHANGED <<lastIndex, ctxLastIndex, fetching>>

\* POST /api/validate-tx
ValidateTxRoute(body) ==
  /\ last.op = "none"
  /\ \E r \in {ValidateTxHandler(threatStore, body, ctxLastIndex)} :
        /\ r.answer.status # 400 => Accepted < MaxRequests
        /\ last' = Answer("POST /api/validate-tx", body, r.answer)
        /\ threatStore' = r.answer.store
        /\ ctxLastIndex' = r.cursors
  /\ UNCHANGED <<lastIndex, chk, fetching>>

\* GET /api/threats
ThreatsRoute(query) ==
  /\ last.op = "none"
  /\ \E limit \in {RouteLimit(query.limit)} :
       last' = [op |-> "GET /api/threats", req |-> query, status |-> 200,
                error |-> "", calls |-> <<>>,
                result |-> ThreatsAnswer(getThreats(threatStore, query.since, limit),
                                         limit, query.since)]
  /\ UNCHANGED <<lastIndex, ctxLastIndex, chk, threatStore, fetching>>

\* threatStore.addThreat(threat), as the three routes call it
AddThreat(threat) ==
  /\ last.op = "none"
  /\ \E size \in FeedSizes \cup StoreSizes :
       /\ size <= threatStore.stats.threatsDetected
       /\ threatStore.stats.threatsDetected < size + MaxAdds
  /\ \E store \in {addThreat(threatStore, threat)} :
       /\ threatStore' = store
       /\ last' = [op |-> "addThreat", req |-> threat, result |-> store.threats[1]]
  /\ UNCHANGED <<lastIndex, ctxLastIndex, chk, fetching>>

\* POST /api/score up to its answer, or to the await of scoreFromUrl; the
\* handler reads and writes nothing the other handlers share
ScoreRoute(body) ==
  /\ last.op = "none"
  /\ fetching = NotFetching
  /\ IF body.name = ""
       THEN /\ last' = [op |-> "POST /api/score", req |-> body, status |-> 400,
                        error |-> "Agent name is required", calls |-> <<>>,
                        result |-> NoResult]
            /\ fetching' = fetching
     ELSE IF body.code.content.truthy
       THEN /\ last' = ScoreAnswer(body, ScoreCall(RouteProfile(body), body.code))
            /\ fetching' = fetching
     ELSE IF body.codeUrl # ""
       THEN /\ fetching' = [pc |-> "scoreFromUrl", body |-> body]
            /\ last' = last
     ELSE /\ last' = ScoreAnswer(body, ScoreCall(RouteProfile(body), NoCodeGiven))
          /\ fetching' = fetching
  /\ UNCHANGED <<lastIndex, ctxLastIndex, chk, threatStore>>

\* the fetch of scoreFromUrl settles, scoreAgent runs and the route answers
ScoreFetchSettles(outcome) ==
  /\ fetching.pc = "scoreFromUrl"
  /\ last.op = "none"
  /\ last' = ScoreAnswer([name |-> fetching.body.name,
                          description |-> fetching.body.description,
                          codeUrl |-> fetching.body.codeUrl,
                          walletAddress |-> fetching.body.walletAddress,
                          skills |-> fetching.body.skills,
                          code |-> fetching.body.code,
                          fetched |-> outcome],
                         scoreFromUrl(fetching.body.codeUrl, outcome))
  /\ fetching' = NotFetching
  /\ UNCHANGED <<lastIndex, ctxLastIndex, chk, threatStore>>

Routes == {"POST /api/scan", "GET /api/check/:address", "POST /api/validate-tx"}

\* the caller takes the returned result, the client the answer
TakeResult ==
  /\ last.op \in {"scanCode", "validateTransaction", "checkAddress", "scoreAgent",
                   "GET /api/threats", "addThreat", "POST /api/score"}
                   \cup Routes
  /\ last' = [op |-> "none"]
  /\ UNCHANGED <<lastIndex, ctxLastIndex, chk, threatStore, fetching>>

ScanNext == (Ready /\ \E code \in CodeInputs : ScanCode(code)) \/ TakeResult

TxNext == (Ready /\ \E req \in TxRequests : ValidateTransaction(req)) \/ TakeResult

CheckNext ==
  \/ \E address \in AddressSample : CheckAddress(address)
  \/ \E reply \in AccountReplies : GetAccountInfoReturns(reply)
  \/ \E reply \in SignatureReplies : GetSignaturesReturns(reply)
  \/ TakeResult

ScoreNext ==
  \/ Ready /\ \E r \in ScoreRequests : ScoreAgent(r.profile, r.codeContent)
  \/ TakeResult

RouteNext ==
  \/ \E body \in ScanBodies : ScanRoute(body)
  \/ \E outcome \in FetchOutcomes : FetchSettles(outcome)
  \/ \E address \in CheckParams : CheckRoute(address)
  \/ \E reply \in AccountReplies : GetAccountInfoReturns(reply)
  \/ \E reply \in SignatureReplies : GetSignaturesReturns(reply)
  \/ \E body \in ValidateTxBodies : ValidateTxRoute(body)
  \/ \E query \in ThreatQueries : ThreatsRoute(query)
  \/ TakeResult

Next == ScanNext \/ TxNext \/ CheckNext \/ ScoreNext \/ RouteNext

Spec == Init /\ [][Next]_vars

\* the code scanner alone
SpecScan == Init /\ [][ScanNext]_vars

\* the code scanner and the transaction validator
SpecSync == Init /\ [][ScanNext \/ TxNext]_vars

\* the transaction validator alone
SpecTx == Init /\ [][TxNext]_vars

\* the address checker alone
SpecCheck == Init /\ [][CheckNext]_vars

\* the transaction validator and the address checker
SpecTxCheck == Init /\ [][TxNext \/ CheckNext]_vars

\* the agent scorer alone
SpecScore == Init /\ [][ScoreNext]_vars

\* the server: the three routes that write to the threat store
SpecRoutes == Init /\ [][RouteNext]_vars

\* the score route alone
AgentNext ==
  \/ \E body \in ScoreBodies : ScoreRoute(body)
  \/ \E outcome \in ScoreFetchOutcomes : ScoreFetchSettles(outcome)
  \/ TakeResult

SpecAgent == Init /\ [][AgentNext]_vars

\* the feed read from stores of the sizes of FeedSizes
InitFeed ==
  /\ lastIndex = [k \in Rules |-> 0]
  /\ ctxLastIndex = [k \in CtxPatterns |-> 0]
  /\ last = [op |-> "none"]
  /\ chk = IdleCheck
  /\ threatStore \in {StoreAfter(n) : n \in FeedSizes}
  /\ fetching = NotFetching

FeedNext ==
  \/ \E i \in 1..Len(LoggedThreats) : AddThreat(LoggedThreats[i])
  \/ \E query \in ThreatQueries : ThreatsRoute(query)
  \/ TakeResult

\* the threat store and its feed
SpecFeed == InitFeed /\ [][FeedNext]_vars

\* threats added to stores of the sizes of StoreSizes
InitStore ==
  /\ lastIndex = [k \in Rules |-> 0]
  /\ ctxLastIndex = [k \in CtxPatterns |-> 0]
  /\ last = [op |-> "none"]
  /\ chk = IdleCheck
  /\ threatStore \in {StoreAfter(n) : n \in StoreSizes}
  /\ fetching = NotFetching

StoreNext ==
  \/ \E i \in 1..Len(LoggedThreats) : AddThreat(LoggedThreats[i])
  \/ TakeResult

\* the threat store alone, up to its capacity
SpecStore == InitStore /\ [][StoreNext]_vars

\* ======================================================================
\* Properties
\* ======================================================================
Scanned == last.op = "scanCode"

Validated == last.op = "validateTransaction"

Checked == last.op = "checkAddress"

Present(detections, category) ==
  \E i \in 1..Len(detections) : detections[i].category = category

\* C1: every riskScore returned by scanCode, validateTransaction and
\* checkAddress lies between 0 and 100 inclusive.
C1_ScoreInRange ==
  (Scanned \/ Validated \/ Checked) =>
    (last.result.riskScore >= 0 /\ last.result.riskScore <= 100)

\* a transaction to a registry address with an extremely high amount: the
\* sum of 80 and 25 is returned as 100
C1_Witness ==
  /\ Validated
  /\ IsPublicKey(last.req.destination)
  /\ ScamLookupGet(last.req.destination) # NoEntry
  /\ InSeq("EXTREMELY_HIGH_VALUE", last.result.flags)
  /\ last.result.riskScore = 100

\* C2: safe is exactly riskScore < 30, and with at least one detection the
\* banner is CRITICAL for 80.., HIGH for 50..79, MODERATE for 30..49 and LOW
\* below 30, so a safe result never carries a MODERATE, HIGH or CRITICAL
\* banner.
C2_SafeAndBanner ==
  Scanned =>
    LET score  == last.result.riskScore
        banner == last.result.summary.banner
    IN  /\ last.result.safe <=> score < 30
        /\ Len(last.result.detections) > 0 =>
              /\ banner = "CRITICAL" <=> score \in 80..100
              /\ banner = "HIGH"     <=> score \in 50..79
              /\ banner = "MODERATE" <=> score \in 30..49
              /\ banner = "LOW"      <=> score \in 0..29
        /\ last.result.safe => banner \notin {"MODERATE", "HIGH", "CRITICAL"}

\* an unsafe scan at the bottom of the MODERATE band
C2_Witness ==
  /\ Scanned
  /\ last.result.riskScore \in 30..39
  /\ ~last.result.safe
  /\ last.result.summary.banner = "MODERATE"

\* weight in tenths that detection i of a list contributes: full for the
\* first of its category, 30% for a later one
Contribution10(detections, i) ==
  PATTERNS[detections[i].pattern].weight
    * (IF \E j \in 1..(i - 1) : detections[j].category = detections[i].category
         THEN 3 ELSE 10)

RECURSIVE WeightedSum10(_, _)
WeightedSum10(detections, n) ==
  IF n = 0 THEN 0 ELSE WeightedSum10(detections, n - 1) + Contribution10(detections, n)

\* rule-table order, then match position
DiscoveryOrdered(detections) ==
  \A i, j \in 1..Len(detections) :
    i < j => \/ detections[i].pattern < detections[j].pattern
             \/ /\ detections[i].pattern = detections[j].pattern
                /\ detections[i].line <= detections[j].line

\* C3: the base score is the sum over the detections in discovery order of
\* the full rule weight for the first detection of a category and 30% of
\* the rule weight for every later one, rounded and capped at 100.
C3_BaseScore ==
  Scanned =>
    LET sum10 == WeightedSum10(last.raw, Len(last.raw))
    IN  /\ DiscoveryOrdered(last.raw)
        /\ IF sum10 + 5 >= 1000
             THEN last.base = 100
             ELSE 10 * last.base <= sum10 + 5 /\ sum10 + 5 < 10 * last.base + 10

\* two detections of one category whose sum ends in .5
C3_Witness ==
  /\ Scanned
  /\ \E i, j \in 1..Len(last.raw) :
        i < j /\ last.raw[i].category = last.raw[j].category
  /\ WeightedSum10(last.raw, Len(last.raw)) % 10 = 5
  /\ last.base < 100

\* the four boost conditions, read off the detections and the input
BoostConditions(detections, code) ==
  <<Cardinality({detections[i].category :
                   i \in {j \in 1..Len(detections) : detections[j].severity = "critical"}}) >= 3,
    Present(detections, "network_exfil")
      /\ (Present(detections, "wallet_drain") \/ Present(detections, "crypto_theft")),
    Present(detections, "shell_exec") /\ Present(detections, "data_access"),
    code.entropy > 5500 /\ code.length > 500>>

BoostAmounts == <<15, 20, 10, 10>>

BoostTotal(detections, code) ==
  LET c == BoostConditions(detections, code)
  IN  (IF c[1] THEN 15 ELSE 0) + (IF c[2] THEN 20 ELSE 0)
      + (IF c[3] THEN 10 ELSE 0) + (IF c[4] THEN 10 ELSE 0)

\* the boosts applied one after the other in the given order, each capped
RECURSIVE ApplyInOrder(_, _, _, _)
ApplyInOrder(order, n, conds, score) ==
  IF n > 4 THEN score
  ELSE ApplyInOrder(order, n + 1, conds,
                    IF conds[order[n]] THEN Min(100, score + BoostAmounts[order[n]])
                                       ELSE score)

\* C4: the final score is min(100, base + 15 [three or more categories with
\* a critical detection] + 20 [network_exfil with wallet_drain or
\* crypto_theft] + 10 [shell_exec with data_access] + 10 [entropy > 5.5 and
\* length > 500]), in whatever order the four boosts are applied.
C4_FinalScore ==
  Scanned =>
    /\ last.result.riskScore = Min(100, last.base + BoostTotal(last.raw, last.req))
    /\ \A order \in Permutations(1..4) :
          ApplyInOrder(order, 1, BoostConditions(last.raw, last.req), last.base)
            = last.result.riskScore

\* two boosts on a base below 100 that together pass the ceiling
C4_Witness ==
  /\ Scanned
  /\ last.base < 100
  /\ BoostConditions(last.raw, last.req)[1]
  /\ BoostConditions(last.raw, last.req)[2]
  /\ last.base + BoostTotal(last.raw, last.req) > 100
  /\ last.result.riskScore = 100

\* C5: the risk score is the score of the deduplicated detections, so that
\* several matches of one rule on one line count as one.
C5_ScoreOfDeduplicated ==
  Scanned =>
    last.result.riskScore = Aggregate(last.result.detections, last.req).result.riskScore

Triple(d) == <<d.category, d.description, d.line>>

\* indices of the detections that are the first of their (category,
\* description, line)
FirstOccurrences(detections) ==
  {i \in 1..Len(detections) :
     \A j \in 1..(i - 1) : Triple(detections[j]) # Triple(detections[i])}

\* C6: the returned detections hold no two entries with the same
\* (category, description, line) and are the first occurrences of each
\* key, in discovery order.
C6_Deduplicated ==
  Scanned =>
    LET out  == last.result.detections
        kept == FirstOccurrences(last.raw)
    IN  /\ \A i, j \in 1..Len(out) : i # j => Triple(out[i]) # Triple(out[j])
        /\ Len(out) = Cardinality(kept)
        /\ \A i \in kept : out[Cardinality({k \in kept : k <= i})] = last.raw[i]

\* one rule matched twice on one line and once more on another line
C6_Witness ==
  /\ Scanned
  /\ Len(last.result.detections) < Len(last.raw)
  /\ \E i, j \in 1..Len(last.result.detections) :
        /\ i < j
        /\ last.result.detections[i].pattern = last.result.detections[j].pattern
        /\ last.result.detections[i].line < last.result.detections[j].line

NoSuspiciousPatterns ==
  /\ last.result.safe
  /\ last.result.summary.banner = "NO_SUSPICIOUS_PATTERNS"

\* C7 as stated: a scan without detections returns riskScore 0, safe and
\* the 'no suspicious patterns' summary, for every input.
C7_NoDetectionsScoreZero ==
  (Scanned /\ Len(last.raw) = 0) =>
    (last.result.riskScore = 0 /\ NoSuspiciousPatterns)

\* C7 as amended: a scan without detections returns safe and the 'no
\* suspicious patterns' summary; its riskScore is 0, or 10 when the input is
\* longer than 500 characters with an entropy above 5.5.
C7_NoDetectionsScore ==
  (Scanned /\ Len(last.raw) = 0) =>
    /\ NoSuspiciousPatterns
    /\ last.result.riskScore =
         IF last.req.entropy > 5500 /\ last.req.length > 500 THEN 10 ELSE 0

\* a long high-entropy input that matches no rule
C7_Witness ==
  /\ Scanned
  /\ Len(last.raw) = 0
  /\ last.req.length > 500
  /\ last.result.riskScore = 10

\* C8: scanCode on the empty string returns riskScore 0, safe and no
\* detections.
C8_EmptyString ==
  (Scanned /\ last.req.length = 0) =>
    /\ last.result.riskScore = 0
    /\ last.result.safe
    /\ last.result.detections = <<>>

C8_Witness ==
  /\ Scanned
  /\ last.req.length = 0
  /\ last.req.text = <<>>
  /\ last.result.codeLength = 0

\* critical rules a detection is added of: shell_exec 20, network_exfil 25,
\* wallet_drain 30, obfuscation 25, data_access 25, crypto_theft 30
AddSample == {3, 14, 18, 37, 54, 55}

\* the list with one detection of rule k, on line 1, at its discovery
\* position among detections of other rules
InsertDetection(detections, k) ==
  LET d == [pattern |-> k, category |-> PATTERNS[k].category,
            severity |-> PATTERNS[k].severity,
            description |-> PATTERNS[k].description, line |-> 1,
            match |-> k, confidence |-> PATTERNS[k].confidence]
      n == Cardinality({i \in 1..Len(detections) : detections[i].pattern < k})
  IN  SubSeq(detections, 1, n) \o <<d>> \o SubSeq(detections, n + 1, Len(detections))

BoostTriggered(detections, code) ==
  \E b \in 1..4 : BoostConditions(detections, code)[b]

\* critical rules of the sample whose category has no detection yet
Addable(detections) ==
  {k \in AddSample : /\ PATTERNS[k].severity = "critical"
                     /\ ~Present(detections, PATTERNS[k].category)}

\* C9: when a boost condition already holds, adding one critical detection
\* of a category not yet present never lowers the score.
C9_AddCriticalCategory ==
  (Scanned /\ BoostTriggered(last.raw, last.req)) =>
    \A k \in Addable(last.raw) :
      Aggregate(InsertDetection(last.raw, k), last.req).result.riskScore
        >= last.result.riskScore

\* a boosted scan whose score rises with an added critical category
C9_Witness ==
  /\ Scanned
  /\ BoostTriggered(last.raw, last.req)
  /\ Len(last.raw) > 0
  /\ \E k \in Addable(last.raw) :
        Aggregate(InsertDetection(last.raw, k), last.req).result.riskScore
          > last.result.riskScore

\* C10: a call made after any earlier calls returns what it returns as the
\* very first call, and the cursor of every rule regex is 0 whenever its
\* matching starts.
C10_NoCursorLeak ==
  /\ \A k \in Rules : lastIndex[k] = 0
  /\ \A k \in CtxPatterns : ctxLastIndex[k] = 0
  /\ Scanned =>
       /\ last.starts \subseteq {0}
       /\ last.result = scanCode(last.req, [k \in Rules |-> 0]).result
  /\ Validated =>
       /\ last.starts \subseteq {0}
       /\ last.result = validateTransaction(last.req, [k \in CtxPatterns |-> 0]).result

\* a validation whose context matched the same pattern twice
C10_Witness ==
  /\ Validated
  /\ Len(last.req.context.text) >= 2
  /\ last.req.context.text[1] = last.req.context.text[2]
  /\ Len(last.result.flags) > 0
  /\ last.starts = {0}

\* ---- validateTransaction ---------------------------------------------
InRegistry(address) == ScamLookupGet(address) # NoEntry

Blocked(result) == result.recommendation = "block" /\ ~result.safe

\* C11: a destination found in the scam registry is answered with
\* recommendation block and safe = false for every amount, token and
\* context, and equally when the allow-list deduction is applied to it (no
\* registry address is on the shipped allow-list, so the deduction is run
\* on the request as the code would run it).
C11_RegistryHitBlocks ==
  (Validated /\ InRegistry(last.req.destination)) =>
    /\ Blocked(last.result)
    /\ IsPublicKey(last.req.destination) =>
         \A safeProgram \in BOOLEAN :
           Blocked(ValidateSteps(last.req, last.before,
                                 ScamLookupGet(last.req.destination),
                                 safeProgram).result)

\* a registry destination that is a key, with a small amount and an
\* innocuous context: the score is the registry penalty alone, and with the
\* allow-list deduction it lands exactly on the block threshold
C11_Witness ==
  /\ Validated
  /\ InRegistry(last.req.destination)
  /\ IsPublicKey(last.req.destination)
  /\ last.result.riskScore = 80
  /\ Len(last.result.flags) = 2
  /\ last.result.recommendation = "block"
  /\ ValidateSteps(last.req, last.before, ScamLookupGet(last.req.destination),
                   TRUE).result.riskScore = 60

\* C12: for a destination that is a key, the recommendation is block exactly
\* when the final score is 60 or more or the destination is in the scam
\* registry, review exactly when the score is 30..59 with no registry hit,
\* and proceed otherwise.
C12_Recommendation ==
  (Validated /\ IsPublicKey(last.req.destination)) =>
    LET score == last.result.riskScore
        hit   == InRegistry(last.req.destination)
        rec   == last.result.recommendation
    IN  /\ rec \in {"block", "review", "proceed"}
        /\ (rec = "block") <=> (score >= 60 \/ hit)
        /\ (rec = "review") <=> (score >= 30 /\ score <= 59 /\ ~hit)
        /\ (rec = "proceed") <=> (score < 30 /\ ~hit)

\* a destination outside the registry whose score is exactly 30
C12_Witness ==
  /\ Validated
  /\ IsPublicKey(last.req.destination)
  /\ ~InRegistry(last.req.destination)
  /\ last.result.riskScore = 30
  /\ last.result.recommendation = "review"

\* C13: a string that new PublicKey rejects short-circuits both functions:
\* checkAddress returns riskScore 100, safe = false, the single flag
\* INVALID_ADDRESS and no scamMatch without issuing a ledger query;
\* validateTransaction returns riskScore 100, safe = false, block and the
\* single flag INVALID_DESTINATION_ADDRESS, with no context pattern tested
\* and no cursor moved.
C13_InvalidAddress ==
  /\ (Checked /\ ~IsPublicKey(last.req)) =>
       /\ last.result.riskScore = 100
       /\ ~last.result.safe
       /\ last.result.flags = <<"INVALID_ADDRESS">>
       /\ last.result.scamMatch = NoEntry
       /\ last.result.accountQueries = 0
       /\ last.result.signatureQueries = 0
       /\ chk = IdleCheck
  /\ (last.op = "checkAddress-pending") => IsPublicKey(last.req)
  /\ (Validated /\ ~IsPublicKey(last.req.destination)) =>
       /\ last.result.riskScore = 100
       /\ ~last.result.safe
       /\ last.result.recommendation = "block"
       /\ last.result.flags = <<"INVALID_DESTINATION_ADDRESS">>
       /\ last.starts = {}
       /\ ctxLastIndex = last.before

\* a transfer of a non-positive amount, with a context matching a pattern,
\* to a registry entry that is not a key
C13_Witness ==
  /\ Validated
  /\ ~IsPublicKey(last.req.destination)
  /\ InRegistry(last.req.destination)
  /\ last.req.amount2 <= 0
  /\ last.req.context.truthy
  /\ Len(last.req.context.text) > 0
  /\ last.result.flags = <<"INVALID_DESTINATION_ADDRESS">>

AmountFlags ==
  {"EXTREMELY_HIGH_VALUE", "HIGH_VALUE_TRANSACTION", "ZERO_OR_NEGATIVE_AMOUNT",
   "ROUND_NUMBER_AMOUNT"}

\* the stated amount rules for an amount of amount2 halves and a threshold
AmountRule(amount2, threshold) ==
  LET extreme == amount2 > 10 * threshold * 2
      high    == amount2 > threshold * 2 /\ ~extreme
      nonpos  == amount2 <= 0
      round   == amount2 % 2 = 0 /\ amount2 >= 100 * 2
  IN  [flags |-> (IF extreme THEN {"EXTREMELY_HIGH_VALUE"} ELSE {})
                 \cup (IF high THEN {"HIGH_VALUE_TRANSACTION"} ELSE {})
                 \cup (IF nonpos THEN {"ZERO_OR_NEGATIVE_AMOUNT"} ELSE {})
                 \cup (IF round THEN {"ROUND_NUMBER_AMOUNT"} ELSE {}),
       add   |-> (IF extreme THEN 25 ELSE 0) + (IF high THEN 10 ELSE 0)
                 + (IF nonpos THEN 5 ELSE 0) + (IF round THEN 3 ELSE 0)]

\* the table entry of the upper-cased symbol, DEFAULT for any other string
TableThreshold(token) ==
  IF ToUpperCase(token) \in DOMAIN HIGH_VALUE_THRESHOLDS
    THEN HIGH_VALUE_THRESHOLDS[ToUpperCase(token)]
    ELSE HIGH_VALUE_THRESHOLDS.DEFAULT

Occurrences(flag, flags) == Cardinality({i \in 1..Len(flags) : flags[i] = flag})

\* the latest validation carries exactly the amount flags of the rules,
\* once each, and its score is the capped sum of what the same request
\* scores with an amount of 0.5 and of what the rules add
AmountAnalysisBy(threshold) ==
  LET rule    == AmountRule(last.req.amount2, threshold)
      neutral == validateTransaction([last.req EXCEPT !.amount2 = 1], last.before)
  IN  /\ \A f \in AmountFlags :
            Occurrences(f, last.result.flags) = IF f \in rule.flags THEN 1 ELSE 0
      /\ last.result.riskScore = FinalScore(neutral.uncapped + rule.add)

\* C14 as stated: the threshold is the table entry of the upper-cased token
\* and DEFAULT (1000) for every other token; over 10x threshold adds 25 and
\* EXTREMELY_HIGH_VALUE, over threshold but not over 10x adds 10 and
\* HIGH_VALUE_TRANSACTION, an amount <= 0 adds 5, an integral amount >= 100
\* adds 3, and no other amount contributes.
C14_AmountAnalysisAsStated ==
  (Validated /\ IsPublicKey(last.req.destination)) =>
    AmountAnalysisBy(TableThreshold(last.req.token))

\* C14 (amended): the same rules with an empty token counted as SOL.
C14_AmountAnalysis ==
  (Validated /\ IsPublicKey(last.req.destination)) =>
    AmountAnalysisBy(TableThreshold(IF last.req.token = "" THEN "SOL"
                                                           ELSE last.req.token))

\* 10001 of a token given in lower case: over the token's threshold of 5000
\* but not over ten times it, and a round amount
C14_Witness ==
  /\ Validated
  /\ IsPublicKey(last.req.destination)
  /\ last.req.token = "jup"
  /\ last.req.amount2 = 20002
  /\ InSeq("HIGH_VALUE_TRANSACTION", last.result.flags)
  /\ InSeq("ROUND_NUMBER_AMOUNT", last.result.flags)
  /\ ~InSeq("EXTREMELY_HIGH_VALUE", last.result.flags)

\* the patterns that occur in a context text
Matching(text) == {k \in CtxPatterns : \E i \in 1..Len(text) : text[i] = k}

RECURSIVE SumWeights(_)
SumWeights(S) ==
  IF S = {} THEN 0
  ELSE LET k == CHOOSE x \in S : TRUE
       IN  SUSPICIOUS_CONTEXT_PATTERNS[k].weight + SumWeights(S \ {k})

\* a context of 60 characters that matches no pattern
PlainContext == [truthy |-> TRUE, text |-> <<>>, trimLength |-> 60]

\* C15: each of the eight context patterns that matches the context appends
\* its flag once and adds its weight once, however often it occurs in the
\* text; a context that is absent or shorter than 5 characters after
\* trimming adds 5 and NO_CONTEXT_PROVIDED, and a context of 5 or more
\* characters after trimming never gets that flag.
C15_ContextAnalysis ==
  (Validated /\ IsPublicKey(last.req.destination)) =>
    LET context == last.req.context
        matched == IF context.truthy THEN Matching(context.text) ELSE {}
        missing == ~context.truthy \/ context.trimLength < 5
        plain   == validateTransaction([last.req EXCEPT !.context = PlainContext],
                                       last.before)
    IN  /\ \A k \in CtxPatterns :
              Occurrences(SUSPICIOUS_CONTEXT_PATTERNS[k].flag, last.result.flags)
                = IF k \in matched THEN 1 ELSE 0
        /\ Occurrences("NO_CONTEXT_PROVIDED", last.result.flags)
             = IF missing THEN 1 ELSE 0
        /\ last.result.riskScore
             = FinalScore(plain.uncapped + SumWeights(matched)
                          + IF missing THEN 5 ELSE 0)

\* a context of 60 characters in which one pattern occurs twice: its flag
\* and its weight count once and the context is not missing
C15_Witness ==
  /\ Validated
  /\ IsPublicKey(last.req.destination)
  /\ ~InRegistry(last.req.destination)
  /\ last.req.destination \notin KNOWN_SAFE_PROGRAMS
  /\ last.req.amount2 = 1
  /\ last.req.context.text = <<1, 1>>
  /\ last.req.context.trimLength = 60
  /\ last.result.flags = <<"URGENCY_PRESSURE">>
  /\ last.result.riskScore = 10

\* ---- checkAddress ----------------------------------------------------
\* C16: a failed account query or signature query never raises out of
\* checkAddress and adds no risk: the step in which the query fails returns
\* the result, with RPC_ERROR (and no signature query issued) or
\* TX_HISTORY_UNAVAILABLE appended to the flags collected so far and with
\* the riskScore accumulated before the query.
C16_QueryFailure ==
  [][/\ (chk.pc = "getAccountInfo") =>
          \/ chk'.pc = "getSignaturesForAddress" /\ last' = last
          \/ /\ Checked'
             /\ last'.result.flags = Append(chk.flags, "RPC_ERROR")
             /\ last'.result.riskScore = chk.riskScore
             /\ last'.result.signatureQueries = 0
             /\ last'.result.txCount = 0
     /\ (chk.pc = "getSignaturesForAddress") =>
          /\ Checked'
          /\ InSeq("TX_HISTORY_UNAVAILABLE", last'.result.flags) =>
               /\ last'.result.flags = Append(chk.flags, "TX_HISTORY_UNAVAILABLE")
               /\ last'.result.riskScore = chk.riskScore
               /\ last'.result.txCount = 0]_vars

\* the result for a registry address whose account was not found and whose
\* signature query failed: the score is the 50 and 15 collected before it
C16_Witness ==
  /\ Checked
  /\ last.result.scamMatch # NoEntry
  /\ InSeq("ACCOUNT_NOT_FOUND", last.result.flags)
  /\ InSeq("TX_HISTORY_UNAVAILABLE", last.result.flags)
  /\ last.result.riskScore = 65

\* the stated registry penalties
StatedPenalty(severity) ==
  CASE severity = "critical" -> 50
    [] severity = "high"     -> 35
    [] severity = "medium"   -> 20
    [] severity = "low"      -> 10

\* C17: in every checkAddress result safe is true exactly when riskScore is
\* below 30 and the address has no scam-registry match; a registry match
\* (penalty critical 50, high 35, medium 20, low 10) gives safe = false even
\* when the score stays below 30.
C17_SafeIffLowScoreNoMatch ==
  Checked =>
    /\ last.result.safe <=>
         (last.result.riskScore < 30 /\ last.result.scamMatch = NoEntry)
    /\ last.result.scamMatch = ScamLookupGet(last.req) \/ ~IsPublicKey(last.req)
    /\ InRegistry(last.req) => ~last.result.safe
    /\ \A severity \in {"critical", "high", "medium", "low"} :
         SeverityScore(severity) = StatedPenalty(severity)
    /\ last.result.scamMatch # NoEntry =>
         /\ last.result.riskScore >= StatedPenalty(last.result.scamMatch.severity)
         /\ Len(last.result.flags) = 2 =>
              last.result.riskScore = StatedPenalty(last.result.scamMatch.severity)

\* a medium-severity registry address with an existing account and an old
\* history: the score is the penalty of 20 and the result is not safe
C17_Witness ==
  /\ Checked
  /\ last.result.scamMatch # NoEntry
  /\ last.result.scamMatch.severity = "medium"
  /\ last.result.riskScore = 20
  /\ last.result.txCount > 0
  /\ ~last.result.safe

\* C18: within one checkAddress call the account query and the signature
\* query are each issued at most once, a failed query is not issued again,
\* and the result is reached after at most two queries.
C18_NoRetry ==
  /\ chk.accountQueries <= 1
  /\ chk.signatureQueries <= 1
  /\ chk.pc = "getSignaturesForAddress" =>
       (chk.accountQueries = 1 /\ chk.signatureQueries = 1)
  /\ Checked =>
       /\ last.result.accountQueries <= 1
       /\ last.result.signatureQueries <= 1
       /\ last.result.accountQueries + last.result.signatureQueries <= 2
       /\ InSeq("RPC_ERROR", last.result.flags) =>
            (last.result.accountQueries = 1 /\ last.result.signatureQueries = 0)
       /\ InSeq("TX_HISTORY_UNAVAILABLE", last.result.flags) =>
            (last.result.accountQueries = 1 /\ last.result.signatureQueries = 1)

\* a result reached after a failed signature query: one query of each kind
C18_Witness ==
  /\ Checked
  /\ InSeq("TX_HISTORY_UNAVAILABLE", last.result.flags)
  /\ last.result.accountQueries = 1
  /\ last.result.signatureQueries = 1

\* ---- scoreAgent --------------------------------------------------------
Scored == last.op = "scoreAgent"

\* the stated grade bands: A+ from 95, one band every 5 points down to D-
\* from 40, F below
StatedBands ==
  <<"D-", "D", "D+", "C-", "C", "C+", "B-", "B", "B+", "A-", "A", "A+">>

StatedGrade(score) ==
  IF score < 40 THEN "F" ELSE StatedBands[Min(12, (score - 40) \div 5 + 1)]

\* a profile with a name only, scored without code
BareProfile ==
  [matches |-> {}, descriptionLength |-> 0, codeUrl |-> "",
   walletAddress |-> FALSE, skills |-> 0]

\* C19: scoreAgent starts the dimensions at security 50, output 30,
\* reputation 50, integration 30 and risk 80, returns every dimension
\* clamped to 0..100, computes overallScore as the rounded weighted sum
\* 0.30 security + 0.20 output + 0.15 reputation + 0.15 integration
\* + 0.20 risk of the clamped values, and grades it by the bands A+ >= 95,
\* A >= 90, ... D- >= 40, F below 40.
C19_ScoreAgent ==
  /\ \A score \in 0..100 : gradeFromScore(score) = StatedGrade(score)
  /\ Scored =>
       LET d == last.result.dimensions
           u == last.result.uncapped
           hundredths == 30 * d.security + 20 * d.output + 15 * d.reputation
                           + 15 * d.integration + 20 * d.risk
       IN  /\ \A f \in DOMAIN d :
                 /\ d[f] >= 0 /\ d[f] <= 100
                 /\ d[f] = (IF u[f] < 0 THEN 0 ELSE IF u[f] > 100 THEN 100 ELSE u[f])
           /\ (last.req.profile = BareProfile /\ ~last.req.codeContent.truthy) =>
                d = [security |-> 50, output |-> 30, reputation |-> 50,
                     integration |-> 30, risk |-> 80]
           \* round: the integer nearest to the sum, halves going up
           /\ 100 * last.result.overallScore - 50 <= hundredths
           /\ hundredths < 100 * last.result.overallScore + 50
           /\ last.result.grade = StatedGrade(last.result.overallScore)

\* a text matching every pattern: security is cut from 111 or more to 100,
\* risk is raised from -65 to 0, and the weighted sum falls on a half
C19_Witness ==
  /\ Scored
  /\ last.result.uncapped.security > 100
  /\ last.result.dimensions.security = 100
  /\ last.result.uncapped.risk = -65
  /\ last.result.dimensions.risk = 0
  /\ (30 * last.result.dimensions.security + 20 * last.result.dimensions.output
        + 15 * last.result.dimensions.reputation
        + 15 * last.result.dimensions.integration
        + 20 * last.result.dimensions.risk) % 100 = 50

\* ---- routes ------------------------------------------------------------
Answered(op) == last.op = op

\* the input-format errors of a scan request
ScanFormatError(req) ==
  \/ ~Truthy(req.url) /\ ~Truthy(req.code)
  \/ Truthy(req.code) /\ req.code.kind # "string"
  \/ Truthy(req.code) /\ req.code.kind = "string" /\ req.code.length > 1000000
  \/ /\ ~Truthy(req.code)
     /\ Truthy(req.url)
     /\ \/ req.url.kind # "string"
        \/ ~UrlParses(req.url)
        \/ Hostname(req.url) \in {"localhost", "192.168.1.10"}
  \/ /\ "fetched" \in DOMAIN req
     /\ req.fetched.kind = "throws" \/ ~req.fetched.ok

\* the input-format errors of the three routes
FormatError(op, req) ==
  CASE op = "POST /api/scan" -> ScanFormatError(req)
    [] op = "GET /api/check/:address" -> Len(req) < 32 \/ Len(req) > 44
    [] op = "POST /api/validate-tx" ->
         ~Truthy(req.destination) \/ req.amount.kind # "number"

\* C20: a request with an input-format error is answered with an error
\* before any scoring function runs, and an answer that is an error leaves
\* the threat store as it was: no counter is incremented, no threat entry
\* is added (and no scanner state is touched).
C20_RejectedLeavesStore ==
  [][(last.op = "none" /\ last'.op \in Routes) =>
       /\ FormatError(last'.op, last'.req) =>
            (last'.status = 400 /\ last'.error # "")
       /\ last'.status = 400 =>
            /\ FormatError(last'.op, last'.req)
            /\ last'.calls = <<>>
            /\ last'.result = NoResult
            /\ threatStore' = threatStore
            /\ lastIndex' = lastIndex
            /\ ctxLastIndex' = ctxLastIndex
            /\ chk' = chk]_vars

\* a validation rejected for its amount while an address check that was
\* counted is waiting for the ledger
C20_Witness ==
  /\ Answered("POST /api/validate-tx")
  /\ last.status = 400
  /\ Truthy(last.req.destination)
  /\ threatStore.stats.totalAddressChecks = 1
  /\ threatStore.stats.totalTxValidations = 0
  /\ chk.pc = "getSignaturesForAddress"

\* C21: scoring is total at the scan entry point: every scan request whose
\* code field is a string of at most 1,000,000 characters, the empty
\* string included, is answered with a scan result and never with an error.
C21_ScanTotal ==
  (/\ Answered("POST /api/scan")
   /\ last.req.code.kind = "string"
   /\ last.req.code.length <= 1000000)
    => (last.status = 200 /\ last.result # NoResult /\ last.calls = <<"scanCode">>)

\* ---- the threat store and its feed ---------------------------------------
Range(s) == {s[i] : i \in 1..Len(s)}

\* the stored threats a feed request with this since parameter may return
Eligible(since) ==
  {t \in Range(threatStore.threats) :
     (since.kind = "string" /\ since.length > 0 /\ ~since.time.nan)
       => t.seq >= since.time.value}

\* C22: the threat feed never returns more than 200 entries and never more
\* than the limit passed to getThreats (50 when the request names none):
\* the returned list has at most min(limit, 200) entries, they are the
\* newest ones, newest first, and an unparseable since applies no time
\* filter.
C22_FeedLimit ==
  Answered("GET /api/threats") =>
    LET returned == last.result.threats
        limit    == last.result.limit
        since    == last.req.since
    IN  /\ last.req.limit.kind = "undefined" => limit = 50
        /\ Len(returned) <= Min(limit, 200)
        /\ Len(returned) = Min(Min(limit, 200), Cardinality(Eligible(since)))
        /\ Range(returned) \subseteq Eligible(since)
        /\ \A i \in 1..(Len(returned) - 1) : returned[i].seq > returned[i + 1].seq
        /\ returned # <<>> =>
             \A t \in Eligible(since) \ Range(returned) :
               t.seq < returned[Len(returned)].seq
        /\ since.time.nan =>
             returned = SubSeq(threatStore.threats, 1,
                               Min(Min(limit, 200), Len(threatStore.threats)))

\* a request for 5000 entries with a since that is no date, answered from a
\* store of 201 threats with the 200 newest
C22_Witness ==
  /\ Answered("GET /api/threats")
  /\ last.req.limit = [kind |-> "string", value |-> "5000"]
  /\ last.req.since.value = "not-a-date"
  /\ Len(threatStore.threats) = 201
  /\ last.result.count = 200
  /\ last.result.threats[200].seq = 2

\* the list is ordered newest first
NewestFirst(threats) ==
  \A i \in 1..(Len(threats) - 1) : threats[i].seq > threats[i + 1].seq

\* C23: after any sequence of addThreat calls the store holds at most
\* 10,000 entries ordered newest first; an entry added to a full store
\* evicts exactly the oldest entry, and the added entry is always retained
\* at the head.
C23_Retention ==
  [][last'.op = "addThreat" =>
       /\ Len(threatStore'.threats) <= 10000
       /\ NewestFirst(threatStore'.threats)
       /\ threatStore'.threats[1] = last'.result
       /\ threatStore'.threats[1].type = last'.req.type
       /\ threatStore'.threats[1].severity = last'.req.severity
       /\ IF Len(threatStore.threats) = 10000
            THEN /\ Len(threatStore'.threats) = 10000
                 /\ \A i \in 2..10000 :
                      threatStore'.threats[i] = threatStore.threats[i - 1]
                 /\ threatStore.threats[10000] \notin Range(threatStore'.threats)
            ELSE /\ Len(threatStore'.threats) = Len(threatStore.threats) + 1
                 /\ \A i \in 2..Len(threatStore'.threats) :
                      threatStore'.threats[i] = threatStore.threats[i - 1]]_vars

\* the second entry added to a full store: the store still holds 10,000
\* entries, the oldest of them being the third ever added
C23_Witness ==
  /\ Answered("addThreat")
  /\ Len(threatStore.threats) = 10000
  /\ threatStore.stats.threatsDetected = 10002
  /\ threatStore.threats[1] = last.result
  /\ threatStore.threats[10000].seq = 3

\* ---- scanCode: severity, monotonicity, summary ---------------------------
\* C24 as stated: whenever the detections returned by scanCode include at
\* least one detection of severity critical, the result has safe = false.
C24_CriticalUnsafeAsStated ==
  (Scanned /\ \E i \in 1..Len(last.result.detections) :
                last.result.detections[i].severity = "critical")
    => ~last.result.safe

\* the returned detections that are the first of their category and come
\* from a rule of weight 30 or more
HeavyFirst(detections) ==
  {i \in 1..Len(detections) :
     /\ PATTERNS[detections[i].pattern].weight >= 30
     /\ \A j \in 1..(i - 1) : detections[j].category # detections[i].category}

\* C24 (amended): whenever the detections returned by scanCode include a
\* critical detection that is the first detection of its category and whose
\* rule weighs 30 or more, the result has safe = false.
C24_HeavyCriticalUnsafe ==
  (Scanned /\ \E i \in HeavyFirst(last.result.detections) :
                last.result.detections[i].severity = "critical")
    => ~last.result.safe

\* a single detection of rule 18 (weight 30), scored 30
C24_Witness ==
  /\ Scanned
  /\ Len(last.result.detections) = 1
  /\ last.result.detections[1].pattern = 18
  /\ last.result.detections[1].severity = "critical"
  /\ last.result.riskScore = 30
  /\ ~last.result.safe

\* rules a detection is inserted for: light and heavy rules of four
\* categories
InsertSample == {3, 9, 14, 17, 18, 54}

\* the score of the list with one more detection of rule k
ScoreWith(detections, code, k) ==
  Aggregate(InsertDetection(detections, k), code).result.riskScore

\* C25 as stated: inserting one more detection of any rule at its discovery
\* position never yields a lower final score than the list without it.
C25_MonotoneAsStated ==
  Scanned =>
    \A k \in InsertSample :
      ScoreWith(last.raw, last.req, k) >= last.result.riskScore

\* the inserted detection of rule k does not come ahead of the first
\* detection of its own category
NotAheadOfCategory(detections, k) ==
  \/ ~Present(detections, PATTERNS[k].category)
  \/ \E i \in 1..Len(detections) :
       /\ detections[i].category = PATTERNS[k].category
       /\ detections[i].pattern <= k

\* C25 (amended): inserting one more detection at its discovery position
\* never yields a lower final score, provided its category is not yet
\* present or the list already holds a detection of that category from the
\* same or an earlier rule.
C25_MonotoneBehindFirst ==
  Scanned =>
    \A k \in InsertSample :
      NotAheadOfCategory(last.raw, k) =>
        ScoreWith(last.raw, last.req, k) >= last.result.riskScore

\* a later detection of a category already present raises the score by 30%
\* of its weight
C25_Witness ==
  /\ Scanned
  /\ Len(last.raw) = 1
  /\ last.raw[1].pattern = 9
  /\ last.result.riskScore = 5
  /\ NotAheadOfCategory(last.raw, 14)
  /\ ScoreWith(last.raw, last.req, 14) = 13

(***************************************************************************)
(* C26: the counts stated in the scan summary ("Found N detection(s): C    *)
(* critical, H high") equal the number of entries, of critical entries and *)
(* of high entries in the detections list returned in the same result.     *)
(* scanCode builds the summary from the raw list (line 602) and returns    *)
(* the deduplicated list (line 608), so the statement fails as soon as one *)
(* rule matches twice on a line.                                           *)
(***************************************************************************)
C26_SummaryCountsReturned ==
  (Scanned /\ last.result.detections # <<>>) =>
     /\ last.result.summary.found = Len(last.result.detections)
     /\ last.result.summary.critical =
          CountSeverity(last.result.detections, "critical")
     /\ last.result.summary.high =
          CountSeverity(last.result.detections, "high")

\* ---- the counters of the threat store ------------------------------------
(***************************************************************************)
(* C27: after any interleaving of handled scan, address-check and          *)
(* validate-tx requests the counters of the threat store never decrease    *)
(* and satisfy blockedTransactions <= totalTxValidations,                  *)
(* blockedTransactions <= threatsDetected and (number of stored threats)   *)
(* <= threatsDetected; blockedTransactions is incremented exactly for the  *)
(* validations whose recommendation is 'block', and a threat entry is      *)
(* added exactly for the recommendations 'block' and 'review'.             *)
(***************************************************************************)
C27_StoreCounters ==
  [][LET before == threatStore.stats
         after  == threatStore'.stats
     IN  /\ \A f \in DOMAIN before : after[f] >= before[f]
         /\ after.blockedTransactions <= after.totalTxValidations
         /\ after.blockedTransactions <= after.threatsDetected
         /\ Len(threatStore'.threats) <= after.threatsDetected
         /\ after.totalTxValidations = before.totalTxValidations =>
              after.blockedTransactions = before.blockedTransactions
         /\ after.totalTxValidations # before.totalTxValidations =>
              \E recommendation \in
                   {validateTransaction(TxRequest(last'.req),
                                        ctxLastIndex).result.recommendation} :
                /\ after.totalTxValidations = before.totalTxValidations + 1
                /\ after.blockedTransactions - before.blockedTransactions =
                     (IF recommendation = "block" THEN 1 ELSE 0)
                /\ after.threatsDetected - before.threatsDetected =
                     (IF recommendation \in {"block", "review"} THEN 1 ELSE 0)
                /\ Len(threatStore'.threats) - Len(threatStore.threats) =
                     (IF recommendation \in {"block", "review"} THEN 1 ELSE 0)]_vars

\* ---- validateTransaction: safe and the recommendation ------------------
SafeIffProceed(result) == result.safe <=> result.recommendation = "proceed"

\* C28: in every validateTransaction result safe is true exactly when the
\* recommendation is proceed: no result is safe with review or block, and
\* no proceed result is unsafe; a registry hit always leaves the score at
\* 60 or more, also when the allow-list deduction is applied to it.
C28_SafeIffProceed ==
  Validated =>
    /\ SafeIffProceed(last.result)
    /\ (InRegistry(last.req.destination) /\ IsPublicKey(last.req.destination)) =>
         \A safeProgram \in BOOLEAN :
           \E r \in {ValidateSteps(last.req, last.before,
                                   ScamLookupGet(last.req.destination),
                                   safeProgram).result} :
             /\ r.riskScore >= 60
             /\ SafeIffProceed(r)

\* a destination outside the registry whose score falls in the review band:
\* the result is neither safe nor a proceed
C28_Witness ==
  /\ Validated
  /\ IsPublicKey(last.req.destination)
  /\ ~InRegistry(last.req.destination)
  /\ last.result.riskScore >= 30
  /\ last.result.riskScore < 40
  /\ last.result.recommendation = "review"
  /\ ~last.result.safe

\* ---- scoreAgent: the reachable scores ------------------------------------
\* C29: scoreAgent never changes the reputation dimension: every result has
\* dimensions.reputation = 50; with the output dimension at most 85, the
\* integration dimension at most 95 and the risk dimension at most 80 the
\* overall score is at most 85, and the grades A+ and A are never produced.
C29_ReputationFixed ==
  Scored =>
    /\ last.result.uncapped.reputation = 50
    /\ last.result.dimensions.reputation = 50
    /\ last.result.dimensions.output <= 85
    /\ last.result.dimensions.integration <= 95
    /\ last.result.dimensions.risk <= 80
    /\ last.result.overallScore <= 85
    /\ last.result.grade \notin {"A+", "A"}

\* the best profile and code of the sample: every dimension at its ceiling,
\* an overall score of 85 and the grade A-
C29_Witness ==
  /\ Scored
  /\ last.result.dimensions =
       [security |-> 100, output |-> 85, reputation |-> 50,
        integration |-> 95, risk |-> 80]
  /\ last.result.overallScore = 85
  /\ last.result.grade = "A-"

\* ---- the score route ---------------------------------------------------
\* the code a score request is scored with: the code field, else the text
\* fetched from codeUrl, else none
CodeScored(req) ==
  IF req.code.content.truthy THEN req.code
  ELSE IF "fetched" \in DOMAIN req /\ req.fetched.kind = "response" /\ req.fetched.ok
    THEN req.fetched.text
  ELSE NoCodeGiven

\* C30: the agent-score entry point scores the profile fields it is given:
\* walletAddress, skills and description contribute to the dimensions and
\* flags in all three branches, code supplied inline, code fetched from
\* codeUrl, and no code at all.
C30_ProfileScored ==
  (Answered("POST /api/score") /\ last.status = 200) =>
    /\ last.profile = RouteProfile(last.req)
    /\ last.result = ScoreCall(RouteProfile(last.req), CodeScored(last.req)).result
    /\ last.req.walletAddress => InSeq("HAS_WALLET", last.result.flags)

====
